---- MODULE Spec2Model ----
(***************************************************************************)
(* A model of git_detective: line statistics (Stats), the nested           *)
(* contributor -> language -> Stats map (ProjectStats), per-file           *)
(* attribution of blame hunks against classifier annotations, and the      *)
(* parallel final_contributions pass over a repository snapshot.           *)
(***************************************************************************)
EXTENDS Integers, Sequences, FiniteSets, TLC

(***************************************************************************)
(* Bounds of the model.                                                    *)
(***************************************************************************)
\* Largest line number a blame hunk or an annotation may mention.
MaxLines == 2
\* Number of entries git status reports for the repository snapshot.
NumFiles == 3
\* Number of threads in the rayon pool.
NumWorkers == 2
\* Number of per-file results merged by the algebraic specification.
MaxItems == 3
\* Items the revision walk of a history yields.
MaxCommits == 3

(***************************************************************************)
(* Value universes.                                                        *)
(***************************************************************************)
\* Contributor names that decode as UTF-8.
Authors == {"A", "B"}
\* A signature whose name bytes are not valid UTF-8.
NonUtf8 == "<non-utf8>"
\* tokei::LineType
LineTypes == {"Code", "Comment", "Blank"}
\* Language names tokei detects from a path; NoLang: from_path gave None.
NoLang == "<none>"
Detected == {"Rust", NoLang}

\* The empty HashMap.
EmptyMap == [x \in {} |-> x]

\* All orders in which the elements of a finite set can be iterated.
Perms(S) ==
  {s \in [1..Cardinality(S) -> S] : \A i, j \in 1..Cardinality(S) : s[i] = s[j] => i = j}

(***************************************************************************)
(* stats.rs                                                                *)
(***************************************************************************)
\* Stats::default()
StatsDefault == [lines |-> 0, blanks |-> 0, comments |-> 0, code |-> 0]

\* impl AddAssign for Stats
stats_add_assign(self, other) ==
  [lines    |-> self.lines + other.lines,
   code     |-> self.code + other.code,
   comments |-> self.comments + other.comments,
   blanks   |-> self.blanks + other.blanks]

\* impl Add for Stats
stats_add(self, other) ==
  [lines    |-> self.lines + other.lines,
   code     |-> self.code + other.code,
   comments |-> self.comments + other.comments,
   blanks   |-> self.blanks + other.blanks]

\* A line counter that forgets the total for blank lines.
stats_add_line_blank_uncounted(self, other) ==
  CASE other = "Blank"   -> [self EXCEPT !.blanks = @ + 1]
    [] other = "Code"    -> [self EXCEPT !.code = @ + 1, !.lines = @ + 1]
    [] other = "Comment" -> [self EXCEPT !.comments = @ + 1, !.lines = @ + 1]

\* impl AddAssign<&LineType> for Stats
stats_add_line(self, other) ==
  LET matched == CASE other = "Blank"   -> [self EXCEPT !.blanks = @ + 1]
                   [] other = "Code"    -> [self EXCEPT !.code = @ + 1]
                   [] other = "Comment" -> [self EXCEPT !.comments = @ + 1]
  IN [matched EXCEPT !.lines = @ + 1]

(***************************************************************************)
(* project_stats.rs                                                        *)
(***************************************************************************)
\* ProjectStats::new() / ProjectStats::default()
ProjectStatsDefault == EmptyMap

\* An insert that overwrites the Stats of an existing (name, lang) entry.
insert_overwrite(ps, name, lang, stats) ==
  IF name \in DOMAIN ps
    THEN [ps EXCEPT ![name] =
            IF lang \in DOMAIN @
              THEN [@ EXCEPT ![lang] = stats]
              ELSE @ @@ (lang :> stats)]
    ELSE ps @@ (name :> (lang :> stats))

\* An insert that loses the stats of a language new to a known contributor.
insert_new_lang_default(ps, name, lang, stats) ==
  IF name \in DOMAIN ps
    THEN [ps EXCEPT ![name] =
            IF lang \in DOMAIN @
              THEN [@ EXCEPT ![lang] = stats_add_assign(@, stats)]
              ELSE @ @@ (lang :> StatsDefault)]
    ELSE ps @@ (name :> (lang :> stats))

\* ProjectStats::insert
insert(ps, name, lang, stats) ==
  IF name \in DOMAIN ps
    THEN \* Entry::Occupied: entry(lang).or_insert_with(Stats::default) += stats
         [ps EXCEPT ![name] =
            IF lang \in DOMAIN @
              THEN [@ EXCEPT ![lang] = stats_add_assign(@, stats)]
              ELSE @ @@ (lang :> stats_add_assign(StatsDefault, stats))]
    ELSE \* Entry::Vacant
         ps @@ (name :> (lang :> stats))

\* The (contributor, language) keys of a ProjectStats.
Keys(ps) == UNION {{<<a, l>> : l \in DOMAIN ps[a]} : a \in DOMAIN ps}

\* The orders in which the nested loops of add_assign can visit the entries
\* of a HashMap of HashMaps: the entries of one contributor are contiguous.
IterOrders(ps) ==
  {s \in Perms(Keys(ps)) :
     \A i, j, k \in 1..Len(s) : (i < k /\ k < j /\ s[i][1] = s[j][1]) => s[k][1] = s[i][1]}

\* A += that returns after the first entry it visits.
add_assign_first_entry_only(self, other, order) ==
  IF Len(order) = 0 THEN self
  ELSE insert(self, order[1][1], order[1][2], other[order[1][1]][order[1][2]])

RECURSIVE add_assign_from(_, _, _, _)
add_assign_from(self, other, order, i) ==
  IF i > Len(order) THEN self
  ELSE add_assign_from(insert(self, order[i][1], order[i][2], other[order[i][1]][order[i][2]]),
                       other, order, i + 1)

\* impl AddAssign for ProjectStats, the HashMaps iterated in the given order.
add_assign(self, other, order) == add_assign_from(self, other, order, 1)

RECURSIVE from_from(_, _, _, _, _)
from_from(project_stats, lang, file_stats, order, i) ==
  IF i > Len(order) THEN project_stats
  ELSE from_from(insert(project_stats, order[i], lang, file_stats[order[i]]),
                 lang, file_stats, order, i + 1)

\* impl From<(&'static str, HashMap<String, Stats>)> for ProjectStats
from(lang, file_stats, order) == from_from(ProjectStatsDefault, lang, file_stats, order, 1)

RECURSIVE fold_values(_, _)
fold_values(contributions, langs) ==
  IF langs = {} THEN StatsDefault
  ELSE LET l == CHOOSE x \in langs : TRUE
       IN stats_add(fold_values(contributions, langs \ {l}), contributions[l])

\* ProjectStats::total_contribs_by_name
total_contribs_by_name(ps, name) ==
  IF name \in DOMAIN ps
    THEN [some |-> TRUE, val |-> fold_values(ps[name], DOMAIN ps[name])]
    ELSE [some |-> FALSE]

\* A total that adds the code lines of each entry instead of its lines.
RECURSIVE sum_lines_code_only(_, _)
sum_lines_code_only(ps, keys) ==
  IF keys = {} THEN 0
  ELSE LET k == CHOOSE x \in keys : TRUE
       IN ps[k[1]][k[2]].code + sum_lines_code_only(ps, keys \ {k})

RECURSIVE sum_lines(_, _)
sum_lines(ps, keys) ==
  IF keys = {} THEN 0
  ELSE LET k == CHOOSE x \in keys : TRUE
       IN ps[k[1]][k[2]].lines + sum_lines(ps, keys \ {k})

\* ProjectStats::total_lines
total_lines(ps) == sum_lines(ps, Keys(ps))

\* ProjectStats::contributors
contributors(ps) == DOMAIN ps

(***************************************************************************)
(* The repository snapshot as the library sees it through git2 and tokei.  *)
(***************************************************************************)
\* Signatures a blame hunk can carry.
Sigs == Authors \cup {NonUtf8}

\* git2::Signature::name: None when the bytes are not UTF-8.
sig_name(sig) == IF sig = NonUtf8 THEN [some |-> FALSE] ELSE [some |-> TRUE, val |-> sig]

\* Every blame of a file of L lines: consecutive hunks covering s..L.
RECURSIVE HunksFrom(_, _)
HunksFrom(s, L) ==
  IF s > L THEN {<<>>}
  ELSE UNION {{<<[start |-> s, len |-> n, sig |-> g]>> \o rest :
                 g \in Sigs, rest \in HunksFrom(s + n, L)} : n \in 1..(L - s + 1)}

\* Repository::blame_file: an error, or the hunks of the file at HEAD.
BlameOutcomes ==
  {[ok |-> FALSE]} \cup {[ok |-> TRUE, hunks |-> h] : h \in UNION {HunksFrom(1, L) : L \in 0..MaxLines}}

\* LanguageType::annotate_file: an I/O error, or line number -> LineType for
\* the lines of the working-tree file it classified.
ReadOutcomes ==
  {[ok |-> FALSE]} \cup
  {[ok |-> TRUE, ann |-> f] : f \in UNION {[D -> LineTypes] : D \in SUBSET (1..MaxLines)}}

\* Paths: absolute or relative, as a list of components.
RelPath(name) == [abs |-> FALSE, comps |-> <<name>>]
AbsPath(name) == [abs |-> TRUE, comps |-> <<"tmp", name>>]

\* Repository::workdir of a repository that has a working directory
Workdir == [abs |-> TRUE, comps |-> <<"repo">>]

\* PathBuf::join: an absolute path replaces the base.
join(base, path) ==
  IF path.abs THEN path ELSE [abs |-> base.abs, comps |-> base.comps \o path.comps]

\* A classification without the fallback: no language, no name.
lang_name_no_fallback(detected) == detected

\* LanguageType::from_path(..).unwrap_or(LanguageType::Text), then name()
lang_name(detected) == IF detected = NoLang THEN "Plain Text" ELSE detected

(***************************************************************************)
(* lib.rs: per-file attribution                                            *)
(***************************************************************************)
\* A line loop that stops at the first line without an annotation.
RECURSIVE fold_lines_break(_, _, _, _, _)
fold_lines_break(contributions, final_author, annotations, line_num, end) ==
  IF line_num >= end THEN contributions
  ELSE IF line_num \notin DOMAIN annotations
    THEN contributions
    ELSE LET stats == IF final_author \in DOMAIN contributions
                        THEN contributions[final_author] ELSE StatsDefault
             next  == [a \in DOMAIN contributions \cup {final_author} |->
                         IF a = final_author
                           THEN stats_add_line(stats, annotations[line_num])
                           ELSE contributions[a]]
         IN fold_lines_break(next, final_author, annotations, line_num + 1, end)

\* A line loop that makes the author's entry before it looks for the
\* annotation of the line.
RECURSIVE fold_lines_entry_first(_, _, _, _, _)
fold_lines_entry_first(contributions, final_author, annotations, line_num, end) ==
  IF line_num >= end THEN contributions
  ELSE LET stats == IF final_author \in DOMAIN contributions
                      THEN contributions[final_author] ELSE StatsDefault
           next  == [a \in DOMAIN contributions \cup {final_author} |->
                       IF a # final_author THEN contributions[a]
                       ELSE IF line_num \in DOMAIN annotations
                         THEN stats_add_line(stats, annotations[line_num])
                         ELSE stats]
       IN fold_lines_entry_first(next, final_author, annotations, line_num + 1, end)

\* for line_num in hunk.final_start_line()..end
RECURSIVE fold_lines(_, _, _, _, _)
fold_lines(contributions, final_author, annotations, line_num, end) ==
  IF line_num >= end THEN contributions
  ELSE IF line_num \notin DOMAIN annotations
    THEN \* None => continue
         fold_lines(contributions, final_author, annotations, line_num + 1, end)
    ELSE \* entry(final_author).or_insert_with(Stats::default) += line_type
         LET stats == IF final_author \in DOMAIN contributions
                        THEN contributions[final_author] ELSE StatsDefault
             next  == [a \in DOMAIN contributions \cup {final_author} |->
                         IF a = final_author
                           THEN stats_add_line(stats, annotations[line_num])
                           ELSE contributions[a]]
         IN fold_lines(next, final_author, annotations, line_num + 1, end)

\* A blame fold that ends at the first hunk whose author name does not
\* decode, leaving the hunks after it unattributed.
RECURSIVE fold_hunks_stop(_, _, _, _)
fold_hunks_stop(contributions, hunks, annotations, i) ==
  IF i > Len(hunks) THEN contributions
  ELSE LET hunk == hunks[i]
           name == sig_name(hunk.sig)
       IN IF ~name.some
            THEN contributions
            ELSE fold_hunks_stop(fold_lines(contributions, name.val, annotations,
                                            hunk.start, hunk.start + hunk.len),
                                 hunks, annotations, i + 1)

\* blame.iter().fold(HashMap::new(), ..)
RECURSIVE fold_hunks(_, _, _, _)
fold_hunks(contributions, hunks, annotations, i) ==
  IF i > Len(hunks) THEN contributions
  ELSE LET hunk == hunks[i]
           name == sig_name(hunk.sig)
       IN IF ~name.some
            THEN \* None => return contributions
                 fold_hunks(contributions, hunks, annotations, i + 1)
            ELSE fold_hunks(fold_lines(contributions, name.val, annotations,
                                       hunk.start, hunk.start + hunk.len),
                            hunks, annotations, i + 1)

\* An attribution that, when the file cannot be read, still returns the
\* blamed authors, each with Stats::default().
final_contributions_file_inner_partial(workdir, file, hunks) ==
  IF ~file.read.ok
    THEN [ok |-> TRUE, lang |-> lang_name(file.detected),
          contributions |-> [a \in {hunks[i].sig : i \in DOMAIN hunks} \ {NonUtf8} |->
                               StatsDefault]]
    ELSE [ok |-> TRUE, lang |-> lang_name(file.detected),
          contributions |-> fold_hunks(EmptyMap, hunks, file.read.ann, 1)]

\* GitDetective::_final_contributions_file
final_contributions_file_inner(workdir, file, hunks) ==
  LET full_path == join(workdir, file.path)
      lang_type == lang_name(file.detected)
  IN IF ~file.read.ok
       THEN [ok |-> FALSE, err |-> "IOError", path |-> full_path]
       ELSE [ok |-> TRUE, lang |-> lang_type,
             contributions |-> fold_hunks(EmptyMap, hunks, file.read.ann, 1)]

(***************************************************************************)
(* State.                                                                  *)
(***************************************************************************)
VARIABLES
  \* the repository of a GitDetective handle and its exclusion set
  repo,       \* git status order -> file (path, blame, content, language)
  lsOk,       \* whether Repository::statuses succeeds
  bare,       \* whether the repository is bare: no working directory
  excluded,   \* GitDetective::excluded_files
  \* one call of final_contributions
  pc,         \* "idle", "par" (inside par_iter .. reduce), "done"
  files,      \* the Vec<FileStatus> returned by ls(), as indices into repo
  taken,      \* positions of files a worker has started on
  wpc,        \* worker -> "idle", "lock", "blame", "attribute", "fold"
  wfile,      \* worker -> position in files it is working on
  witem,      \* worker -> the Option<ProjectStats> its closure returned
  lock,       \* holder of the Mutex around the handle, or NoWorker
  acquired,   \* position in files -> times the Mutex was locked for that file
  segs,       \* partial results of the reduce: [lo, hi, val]
  result,     \* the Result returned by final_contributions
  \* one call of final_contributions_file
  ffile,      \* the file the path names
  fpc,        \* "call", "done"
  fout,       \* the Result returned
  \* merging per-file results
  items,      \* the per-file (language, author -> Stats) results
  pool,       \* ProjectStats values built so far: [ids, val]
  last,       \* operands and result of the last merge
  \* calls on a handle between exclusions
  hcall,      \* the last call on the handle in use and what it returned
  hbase,      \* what ls and final_contributions returned before any exclusion
  hfresh,     \* no exclude_file has been called on the handle in use
  \* one walk of the history from HEAD
  history,    \* revwalk outcome and the commits it yields, in visiting order
  hop,        \* "diff_stats", "files_contributed_to", "contributors", "commits"
  hpc,        \* "idle", "walk", "done"
  hpos,       \* position of the next commit of the walk
  hacc,       \* the accumulator of try_fold
  hres,       \* the Result returned
  \* checkout
  rstate,     \* Repository::state
  head,       \* HEAD: attached to a branch or detached at an id
  worktree,   \* the commit whose tree the working directory holds
  cocall      \* the last checkout: reference, state before, and what it returned

repoVars  == <<repo, lsOk, bare, excluded>>
callVars  == <<pc, files, taken, wpc, wfile, witem, lock, acquired, segs, result>>
fileVars  == <<ffile, fpc, fout>>
mergeVars == <<items, pool, last>>
handleVars == <<hcall, hbase, hfresh>>
histVars  == <<history, hop, hpc, hpos, hacc, hres>>
coVars    == <<rstate, head, worktree, cocall>>
vars == <<repo, lsOk, bare, excluded, pc, files, taken, wpc, wfile, witem, lock, acquired, segs, result,
          ffile, fpc, fout, items, pool, last, hcall, hbase, hfresh,
          history, hop, hpc, hpos, hacc, hres, rstate, head, worktree, cocall>>

Workers == 1..NumWorkers
NoWorker == 0

\* The None a closure of filter_map returns; also the slot of a worker that
\* holds no item waiting to be folded.
NoItem == [some |-> FALSE]
NoResult == [ok |-> FALSE, err |-> "<pending>"]
NoMerge == [kind |-> "none"]
NoCall == [op |-> "none"]
NoBase == [ls |-> NoResult, final_contributions |-> NoResult, ever |-> {}]

\* A call that does not return: Option::unwrap() on None unwinds the caller.
Panic == [ok |-> FALSE, err |-> "<panic>"]

\* self.repository.workdir(): None for a bare repository
repository_workdir ==
  IF bare THEN [some |-> FALSE] ELSE [some |-> TRUE, val |-> Workdir]

\* A final_contributions_file that classifies before it blames.
final_contributions_file_read_first(file) ==
  IF ~repository_workdir.some
    THEN Panic
    ELSE IF ~file.read.ok
      THEN [ok |-> FALSE, err |-> "IOError", path |-> join(Workdir, file.path)]
      ELSE IF ~file.blame.ok
        THEN [ok |-> FALSE, err |-> "GitError"]
        ELSE final_contributions_file_inner(Workdir, file, file.blame.hunks)

\* GitDetective::final_contributions_file: blame_file(path)?, then
\* workdir(), which unwraps repository.workdir(), then the attribution
final_contributions_file(file) ==
  IF ~file.blame.ok
    THEN [ok |-> FALSE, err |-> "GitError"]
    ELSE LET workdir == repository_workdir
         IN IF ~workdir.some
              THEN Panic
              ELSE final_contributions_file_inner(workdir.val, file, file.blame.hunks)

(***************************************************************************)
(* Inputs.                                                                 *)
(***************************************************************************)
\* Names of the entries of the snapshot, in git status order.
PathNames == <<"a.rs", "LICENSE", "c.rs", "d.rs", "e.rs">>

\* Files a snapshot can hold at a path: one that cannot be blamed, one that
\* cannot be read, and three that can be attributed.
ProfileFiles(path) ==
  {[path |-> path, detected |-> NoLang,
    blame |-> [ok |-> FALSE],
    read |-> [ok |-> TRUE, ann |-> (1 :> "Code")]],
   [path |-> path, detected |-> "Rust",
    blame |-> [ok |-> TRUE, hunks |-> <<[start |-> 1, len |-> 1, sig |-> "B"]>>],
    read |-> [ok |-> FALSE]],
   [path |-> path, detected |-> "Rust",
    blame |-> [ok |-> TRUE, hunks |-> <<[start |-> 1, len |-> 1, sig |-> "A"],
                                        [start |-> 2, len |-> 1, sig |-> "B"]>>],
    read |-> [ok |-> TRUE, ann |-> (1 :> "Code" @@ 2 :> "Comment")]],
   [path |-> path, detected |-> NoLang,
    blame |-> [ok |-> TRUE, hunks |-> <<[start |-> 1, len |-> 2, sig |-> "A"]>>],
    read |-> [ok |-> TRUE, ann |-> (1 :> "Blank")]],
   [path |-> path, detected |-> "Rust",
    blame |-> [ok |-> TRUE, hunks |-> <<[start |-> 1, len |-> 1, sig |-> "B"],
                                        [start |-> 2, len |-> 1, sig |-> NonUtf8]>>],
    read |-> [ok |-> TRUE, ann |-> (1 :> "Code" @@ 2 :> "Code")]]}

\* One file of them for each way the closure of final_contributions ends:
\* blame_file fails, the file cannot be read, the lines of two authors are
\* attributed.
CoreFiles(path) ==
  {f \in ProfileFiles(path) :
     (f.blame.ok /\ f.read.ok) =>
        {f.blame.hunks[i].sig : i \in DOMAIN f.blame.hunks} = {"A", "B"}}

\* The files a handle with exclusions is opened on: those blame_file or the
\* read fails on, and the attributable ones of a detected language.
HandleFiles(path) ==
  {f \in ProfileFiles(path) : (f.blame.ok /\ f.read.ok) => f.detected # NoLang}

\* A file in which the only line blamed to A has no annotation.
UnannotatedFile(path) ==
  [path |-> path, detected |-> "Rust",
   blame |-> [ok |-> TRUE, hunks |-> <<[start |-> 1, len |-> 1, sig |-> "B"],
                                       [start |-> 2, len |-> 1, sig |-> "A"]>>],
   read |-> [ok |-> TRUE, ann |-> (1 :> "Code")]]

\* Every file final_contributions_file can be asked about.
FileUniverse ==
  [path : {RelPath("a.rs"), AbsPath("a.rs")}, detected : Detected,
   blame : BlameOutcomes, read : ReadOutcomes]

\* Per-file results that are merged: those of the attributable files.
ItemUniverse ==
  {final_contributions_file_inner(Workdir, [f EXCEPT !.detected = d], f.blame.hunks) :
     f \in {g \in ProfileFiles(RelPath("a.rs")) : g.blame.ok /\ g.read.ok}, d \in Detected}

\* Repositories by whether Repository::statuses succeeds and whether they
\* are bare: statuses fails on a bare repository.
StatusAndBare == {<<TRUE, FALSE>>, <<FALSE, FALSE>>, <<FALSE, TRUE>>}

RepoIdle  == repo = <<>> /\ lsOk = TRUE /\ bare = FALSE /\ excluded = {}
CallIdle  == /\ pc = "idle" /\ files = <<>> /\ taken = {} /\ lock = NoWorker
             /\ wpc = [w \in Workers |-> "idle"] /\ wfile = [w \in Workers |-> 0]
             /\ witem = [w \in Workers |-> NoItem]
             /\ segs = {} /\ result = NoResult /\ acquired = <<>>
FileIdle  == ffile = [path |-> RelPath("a.rs")] /\ fpc = "idle" /\ fout = NoResult
MergeIdle == items = <<>> /\ pool = {} /\ last = NoMerge
HandleIdle == hcall = NoCall /\ hbase = NoBase /\ hfresh = TRUE
HistIdle  == /\ history = [walk_ok |-> TRUE, commits |-> <<>>] /\ hop = "none"
             /\ hpc = "idle" /\ hpos = 0 /\ hacc = EmptyMap /\ hres = NoResult
CoIdle    == /\ rstate = "Clean" /\ head = [detached |-> FALSE, oid |-> "c1"]
             /\ worktree = "c1" /\ cocall = NoCall

(***************************************************************************)
(* final_contributions_file: one strict call on one file.                  *)
(***************************************************************************)
InitFile ==
  /\ ffile \in FileUniverse
  /\ fpc = "call"
  /\ fout = NoResult
  /\ bare \in BOOLEAN
  /\ repo = <<>> /\ lsOk = ~bare /\ excluded = {}
  /\ CallIdle /\ MergeIdle /\ HandleIdle /\ HistIdle /\ CoIdle

\* GitDetective::final_contributions_file
FinalContributionsFile ==
  /\ fpc = "call"
  /\ fout' = final_contributions_file(ffile)
  /\ fpc' = "done"
  /\ UNCHANGED <<ffile, repoVars, callVars, mergeVars, handleVars, histVars, coVars>>

NextFile == FinalContributionsFile

SpecFile == InitFile /\ [][NextFile]_vars
(***************************************************************************)
(* lib.rs: final_contributions, one call on one handle.                    *)
(***************************************************************************)
\* An ls that returns every status entry, excluded or not.
ls_unfiltered(rp, ok, excl) ==
  IF ~ok THEN [ok |-> FALSE, err |-> "GitError"]
  ELSE [ok |-> TRUE, files |-> [i \in 1..Len(rp) |-> i]]

\* GitDetective::ls: the status entries whose path is not excluded.
ls(rp, ok, excl) ==
  IF ~ok THEN [ok |-> FALSE, err |-> "GitError"]
  ELSE LET keep(i) == rp[i].path \notin excl
       IN [ok |-> TRUE, files |-> SelectSeq([i \in 1..Len(rp) |-> i], keep)]

\* A Mutex that hands out its guard while another guard is alive.
can_lock_always(w) == TRUE

\* repo.lock(): the guard is handed out when no other guard is alive.
can_lock(w) == lock = NoWorker

\* .map(ProjectStats::from).ok()
map_from_ok(r, order) ==
  IF r.ok THEN [some |-> TRUE, val |-> from(r.lang, r.contributions, order)]
  ELSE [some |-> FALSE]

\* the reduce closure: stats_lhs += stats_rhs; stats_lhs
reduce_op(stats_lhs, stats_rhs, order) == add_assign(stats_lhs, stats_rhs, order)

\* An order in which a HashMap happens to be iterated.
SomeOrder(ps) == CHOOSE order \in IterOrders(ps) : TRUE
SomeAuthorOrder(m) == CHOOSE order \in Perms(DOMAIN m) : TRUE

\* A repository of NumFiles files, each one of the profiles; the last may be
\* the file whose line of A has no annotation.
Init ==
  /\ \E choice \in [1..NumFiles -> ProfileFiles(RelPath("a.rs"))],
        final \in {FALSE, TRUE} :
       repo = [i \in 1..NumFiles |->
                 [(IF final /\ i = NumFiles THEN UnannotatedFile(RelPath("a.rs"))
                   ELSE choice[i]) EXCEPT !.path = RelPath(PathNames[i])]]
  /\ \E sb \in StatusAndBare : lsOk = sb[1] /\ bare = sb[2]
  /\ excluded \in {{}, {RelPath(PathNames[1])}}
  /\ CallIdle /\ FileIdle /\ MergeIdle /\ HandleIdle /\ HistIdle /\ CoIdle

\* final_contributions up to the parallel iterator: ls()?, workdir() (which
\* unwraps repository.workdir()), Mutex::new
Start ==
  /\ pc = "idle"
  /\ LET listed == ls(repo, lsOk, excluded)
     IN IF listed.ok /\ repository_workdir.some
          THEN /\ files' = listed.files
               /\ acquired' = [i \in 1..Len(listed.files) |-> 0]
               /\ pc' = "par"
               /\ UNCHANGED result
          ELSE /\ result' = IF listed.ok THEN Panic
                            ELSE [ok |-> FALSE, err |-> listed.err]
               /\ pc' = "done"
               /\ UNCHANGED <<files, acquired>>
  /\ UNCHANGED <<taken, wpc, wfile, witem, lock, segs, repoVars, fileVars, mergeVars,
               handleVars, histVars, coVars>>

\* par_iter: a worker of the pool starts on a file no worker has started on
Take(w) ==
  /\ pc = "par"
  /\ wpc[w] = "idle"
  /\ \E i \in (1..Len(files)) \ taken :
       /\ taken' = taken \cup {i}
       /\ wfile' = [wfile EXCEPT ![w] = i]
  /\ wpc' = [wpc EXCEPT ![w] = "lock"]
  /\ UNCHANGED <<acquired, pc, files, witem, lock, segs, result, repoVars, fileVars, mergeVars,
               handleVars, histVars, coVars>>

\* if let Ok(repo) = repo.lock()
Lock(w) ==
  /\ wpc[w] = "lock"
  /\ can_lock(w)
  /\ lock' = w
  /\ acquired' = [acquired EXCEPT ![wfile[w]] = @ + 1]
  /\ wpc' = [wpc EXCEPT ![w] = "blame"]
  /\ UNCHANGED <<pc, files, taken, wfile, witem, segs, result, repoVars, fileVars, mergeVars,
               handleVars, histVars, coVars>>

\* The partial results after the item of position i of the list was consumed:
\* a Some is folded into the accumulator of the worker's run of consecutive
\* positions, or into a new run that starts from the identity; a None is
\* passed over.
Yield(i, item, order) ==
  LET folded(acc) == IF item.some THEN reduce_op(acc, item.val, order) ELSE acc
  IN {segs \cup {[lo |-> i, hi |-> i, val |-> folded(ProjectStatsDefault)]}}
     \cup {(segs \ {s}) \cup {[lo |-> s.lo, hi |-> i, val |-> folded(s.val)]} :
             s \in {t \in segs : t.hi = i - 1}}

\* A closure that puts a file blame_file fails on into excluded_files.
Blame_excludes(w) ==
  /\ wpc[w] = "blame"
  /\ IF repo[files[wfile[w]]].blame.ok
       THEN /\ wpc' = [wpc EXCEPT ![w] = "attribute"]
            /\ UNCHANGED <<lock, segs, wfile, excluded>>
       ELSE /\ lock' = NoWorker
            /\ excluded' = excluded \cup {repo[files[wfile[w]]].path}
            /\ segs' \in Yield(wfile[w], NoItem, <<>>)
            /\ wpc' = [wpc EXCEPT ![w] = "idle"]
            /\ wfile' = [wfile EXCEPT ![w] = 0]
  /\ UNCHANGED <<acquired, pc, files, taken, witem, result, repo, lsOk, bare,
               fileVars, mergeVars, handleVars, histVars, coVars>>

\* A closure that forgets the guard when blame_file fails: the Mutex stays
\* locked after the closure returned None.
Blame_keeps_lock(w) ==
  /\ wpc[w] = "blame"
  /\ IF repo[files[wfile[w]]].blame.ok
       THEN /\ wpc' = [wpc EXCEPT ![w] = "attribute"]
            /\ UNCHANGED <<lock, segs, wfile>>
       ELSE /\ segs' \in Yield(wfile[w], NoItem, <<>>)
            /\ wpc' = [wpc EXCEPT ![w] = "idle"]
            /\ wfile' = [wfile EXCEPT ![w] = 0]
            /\ UNCHANGED lock
  /\ UNCHANGED <<acquired, pc, files, taken, witem, result, repoVars, fileVars,
               mergeVars, handleVars, histVars, coVars>>

\* if let Ok(blame) = repo.blame_file(&file.path); on Err the guard is dropped
\* and the closure returns None, which filter_map passes over: nothing is
\* folded for the file
Blame(w) ==
  /\ wpc[w] = "blame"
  /\ IF repo[files[wfile[w]]].blame.ok
       THEN /\ wpc' = [wpc EXCEPT ![w] = "attribute"]
            /\ UNCHANGED <<lock, segs, wfile>>
       ELSE /\ lock' = NoWorker
            /\ segs' \in Yield(wfile[w], NoItem, <<>>)
            /\ wpc' = [wpc EXCEPT ![w] = "idle"]
            /\ wfile' = [wfile EXCEPT ![w] = 0]
  /\ UNCHANGED <<acquired, pc, files, taken, witem, result, repoVars, fileVars,
               mergeVars, handleVars, histVars, coVars>>

\* return _final_contributions_file(&workdir, &file.path, blame)
\*          .map(ProjectStats::from).ok(); the guard is dropped on return.
\* A Some is handed to the reduce, which runs after the return; a None is
\* passed over by filter_map.
Attribute(w) ==
  /\ wpc[w] = "attribute"
  /\ LET file == repo[files[wfile[w]]]
         r    == final_contributions_file_inner(Workdir, file, file.blame.hunks)
     IN \E authors \in Perms(IF r.ok THEN DOMAIN r.contributions ELSE {}) :
          LET item == map_from_ok(r, authors)
          IN IF item.some
               THEN /\ witem' = [witem EXCEPT ![w] = item]
                    /\ wpc' = [wpc EXCEPT ![w] = "fold"]
                    /\ UNCHANGED <<segs, wfile>>
               ELSE /\ segs' \in Yield(wfile[w], item, <<>>)
                    /\ wpc' = [wpc EXCEPT ![w] = "idle"]
                    /\ wfile' = [wfile EXCEPT ![w] = 0]
                    /\ UNCHANGED witem
  /\ lock' = NoWorker
  /\ UNCHANGED <<acquired, pc, files, taken, result, repoVars, fileVars,
               mergeVars, handleVars, histVars, coVars>>

\* The reduce on the worker whose closure returned Some(stats): the item is
\* folded with stats_lhs += stats_rhs.  The Mutex is not held; the other
\* workers run meanwhile.
Fold(w) ==
  /\ wpc[w] = "fold"
  /\ \E order \in IterOrders(witem[w].val) :
       segs' \in Yield(wfile[w], witem[w], order)
  /\ witem' = [witem EXCEPT ![w] = NoItem]
  /\ wpc' = [wpc EXCEPT ![w] = "idle"]
  /\ wfile' = [wfile EXCEPT ![w] = 0]
  /\ UNCHANGED <<acquired, pc, files, taken, lock, result, repoVars, fileVars,
               mergeVars, handleVars, histVars, coVars>>

\* reduce: the results of two adjacent runs are combined, left += right
Reduce(s, t) ==
  /\ pc = "par"
  /\ s.hi + 1 = t.lo
  /\ \E order \in IterOrders(t.val) :
       segs' = (segs \ {s, t}) \cup
               {[lo |-> s.lo, hi |-> t.hi, val |-> reduce_op(s.val, t.val, order)]}
  /\ UNCHANGED <<acquired, pc, files, taken, wpc, wfile, witem, lock, result, repoVars, fileVars, mergeVars,
               handleVars, histVars, coVars>>

\* Ok(files.par_iter().filter_map(..).reduce(ProjectStats::default, ..))
Finish ==
  /\ pc = "par"
  /\ taken = 1..Len(files)
  /\ \A w \in Workers : wpc[w] = "idle"
  /\ \/ /\ Len(files) = 0
        /\ result' = [ok |-> TRUE, val |-> ProjectStatsDefault]
     \/ \E s \in segs :
          /\ s.lo = 1 /\ s.hi = Len(files)
          /\ result' = [ok |-> TRUE, val |-> s.val]
  /\ segs' = {}
  /\ pc' = "done"
  /\ UNCHANGED <<acquired, files, taken, wpc, wfile, witem, lock, repoVars, fileVars, mergeVars,
               handleVars, histVars, coVars>>

Next ==
  \/ Start
  \/ \E w \in Workers : Take(w)
  \/ \E w \in Workers : Lock(w)
  \/ \E w \in Workers : Blame(w)
  \/ \E w \in Workers : Attribute(w)
  \/ \E w \in Workers : Fold(w)
  \/ \E s, t \in segs : Reduce(s, t)
  \/ Finish

Spec == Init /\ [][Next]_vars

\* The call on a running machine: the calling thread and the pool's threads
\* are scheduled by the operating system, so the call does not stand still
\* while one of its steps is possible.  Nothing is assumed about which
\* waiting thread a released Mutex wakes.
InitFair ==
  /\ \E choice \in [1..NumFiles -> CoreFiles(RelPath("a.rs"))] :
       repo = [i \in 1..NumFiles |-> [choice[i] EXCEPT !.path = RelPath(PathNames[i])]]
  /\ \E sb \in StatusAndBare : lsOk = sb[1] /\ bare = sb[2]
  /\ excluded \in {{}, {RelPath(PathNames[1])}}
  /\ CallIdle /\ FileIdle /\ MergeIdle /\ HandleIdle /\ HistIdle /\ CoIdle

SpecFair == InitFair /\ [][Next]_vars /\ WF_vars(Next)

\* The same call run by one thread: the closure on each listed file in list
\* order, each item folded into one accumulator that starts as the identity.
RECURSIVE sequential_fold(_, _, _)
sequential_fold(acc, listed, k) ==
  IF k > Len(listed) THEN acc
  ELSE LET file == repo[listed[k]]
           item == IF file.blame.ok
                     THEN LET r == final_contributions_file_inner(Workdir, file, file.blame.hunks)
                          IN map_from_ok(r, SomeAuthorOrder(IF r.ok THEN r.contributions
                                                            ELSE EmptyMap))
                     ELSE [some |-> FALSE]
       IN sequential_fold(IF item.some THEN reduce_op(acc, item.val, SomeOrder(item.val))
                          ELSE acc,
                          listed, k + 1)

sequential_run(listed) == sequential_fold(ProjectStatsDefault, listed, 1)

(***************************************************************************)
(* Merging per-file results: From for each result, += for each pair, in    *)
(* any order, with ProjectStats::default() merged in on either side.       *)
(***************************************************************************)
InitMerge ==
  /\ items \in [1..MaxItems -> ItemUniverse]
  /\ pool = {}
  /\ last = NoMerge
  /\ RepoIdle /\ CallIdle /\ FileIdle /\ HandleIdle /\ HistIdle /\ CoIdle

\* ProjectStats::from on one per-file result
Convert(i) ==
  /\ i \notin UNION {p.ids : p \in pool}
  /\ \E order \in Perms(DOMAIN items[i].contributions) :
       pool' = pool \cup {[ids |-> {i},
                           val |-> from(items[i].lang, items[i].contributions, order)]}
  /\ last' = NoMerge
  /\ UNCHANGED <<items, repoVars, callVars, fileVars, handleVars, histVars, coVars>>

\* lhs += rhs on two values built so far
MergePair(p, q) ==
  /\ p # q
  /\ \E order \in IterOrders(q.val) :
       LET out == add_assign(p.val, q.val, order)
       IN /\ pool' = (pool \ {p, q}) \cup {[ids |-> p.ids \cup q.ids, val |-> out]}
          /\ last' = [kind |-> "pair", lhs |-> p.val, rhs |-> q.val, out |-> out]
  /\ UNCHANGED <<items, repoVars, callVars, fileVars, handleVars, histVars, coVars>>

\* p += ProjectStats::default()
MergeDefaultRight(p) ==
  /\ \E order \in IterOrders(ProjectStatsDefault) :
       LET out == add_assign(p.val, ProjectStatsDefault, order)
       IN /\ pool' = (pool \ {p}) \cup {[ids |-> p.ids, val |-> out]}
          /\ last' = [kind |-> "default_rhs", lhs |-> p.val, rhs |-> ProjectStatsDefault,
                      out |-> out]
  /\ UNCHANGED <<items, repoVars, callVars, fileVars, handleVars, histVars, coVars>>

\* ProjectStats::default() += p
MergeDefaultLeft(p) ==
  /\ \E order \in IterOrders(p.val) :
       LET out == add_assign(ProjectStatsDefault, p.val, order)
       IN /\ pool' = (pool \ {p}) \cup {[ids |-> p.ids, val |-> out]}
          /\ last' = [kind |-> "default_lhs", lhs |-> ProjectStatsDefault, rhs |-> p.val,
                      out |-> out]
  /\ UNCHANGED <<items, repoVars, callVars, fileVars, handleVars, histVars, coVars>>

NextMerge ==
  \/ \E i \in DOMAIN items : Convert(i)
  \/ \E p, q \in pool : MergePair(p, q)
  \/ \E p \in pool : MergeDefaultRight(p)
  \/ \E p \in pool : MergeDefaultLeft(p)

SpecMerge == InitMerge /\ [][NextMerge]_vars

(***************************************************************************)
(* lib.rs: a handle, its exclusion set, and the calls that consult it.     *)
(***************************************************************************)
\* Paths exclude_file is called with: two entries as git status spells them
\* and the first entry spelled as an absolute path, which is another String.
ExcludePaths == {RelPath(PathNames[1]), RelPath(PathNames[2]), AbsPath(PathNames[1])}

\* An exclude_file that takes out a path it is given a second time.
exclude_file_toggle(excl, file) == IF file \in excl THEN excl \ {file} ELSE excl \cup {file}

\* GitDetective::exclude_file: excluded_files.insert(file.into())
exclude_file(excl, file) == excl \cup {file}

\* An open that hands the exclusions of the previous handle to the new one.
open_shared(previous) == previous

\* GitDetective::open: excluded_files of the new handle is HashSet::new(),
\* whatever a handle opened before has excluded.
open(previous) == {}

\* GitDetective::final_contributions as one step: ls()?, then the closure on
\* each listed file, reduced.
final_contributions(rp, ok, excl) ==
  LET listed == ls(rp, ok, excl)
  IN IF ~listed.ok THEN [ok |-> FALSE, err |-> listed.err]
     ELSE IF ~repository_workdir.some THEN Panic
     ELSE [ok |-> TRUE, val |-> sequential_run(listed.files)]

\* A per-file call that refuses a path of excluded_files.
final_contributions_file_unless_excluded(rp, excl, i) ==
  IF rp[i].path \in excl THEN [ok |-> FALSE, err |-> "GitError"]
  ELSE final_contributions_file(rp[i])

\* GitDetective::final_contributions_file on the handle, asked for entry i
\* of the snapshot by its path: blame_file, workdir, then the attribution.
final_contributions_file_on(rp, excl, i) == final_contributions_file(rp[i])

InitHandle ==
  /\ \E choice \in [1..NumFiles -> HandleFiles(RelPath("a.rs"))] :
       repo = [i \in 1..NumFiles |-> [choice[i] EXCEPT !.path = RelPath(PathNames[i])]]
  /\ \E sb \in StatusAndBare : lsOk = sb[1] /\ bare = sb[2]
  /\ excluded = open({})
  /\ HandleIdle
  /\ CallIdle /\ FileIdle /\ MergeIdle /\ HistIdle /\ CoIdle

\* What is remembered of a call: the result obtained before any exclusion.
Remember(op, out) == IF hbase.ever = {} THEN [hbase EXCEPT ![op] = out] ELSE hbase

\* GitDetective::ls
Ls ==
  /\ LET out == ls(repo, lsOk, excluded)
     IN /\ hcall' = [op |-> "ls", out |-> out]
        /\ hbase' = Remember("ls", out)
  /\ UNCHANGED <<hfresh, repoVars, callVars, fileVars, mergeVars, histVars, coVars>>

\* GitDetective::final_contributions
FinalContributions ==
  /\ LET out == final_contributions(repo, lsOk, excluded)
     IN /\ hcall' = [op |-> "final_contributions", out |-> out]
        /\ hbase' = Remember("final_contributions", out)
  /\ UNCHANGED <<hfresh, repoVars, callVars, fileVars, mergeVars, histVars, coVars>>

\* GitDetective::final_contributions_file
HandleFinalContributionsFile(i) ==
  /\ hcall' = [op |-> "final_contributions_file", arg |-> i,
               out |-> final_contributions_file_on(repo, excluded, i)]
  /\ UNCHANGED <<hbase, hfresh, repoVars, callVars, fileVars, mergeVars, histVars, coVars>>

\* GitDetective::exclude_file
ExcludeFile(p) ==
  /\ excluded' = exclude_file(excluded, p)
  /\ hcall' = [op |-> "exclude_file", arg |-> p]
  /\ hbase' = [hbase EXCEPT !.ever = @ \cup {p}]
  /\ hfresh' = FALSE
  /\ UNCHANGED <<repo, lsOk, bare, callVars, fileVars, mergeVars, histVars, coVars>>

\* GitDetective::open on the same repository: the handle in use from now on
Open ==
  /\ excluded' = open(excluded)
  /\ hcall' = [op |-> "open"]
  /\ hfresh' = TRUE
  /\ UNCHANGED <<repo, lsOk, bare, hbase, callVars, fileVars, mergeVars, histVars, coVars>>

\* The operations of the handle in use.
HandleStep ==
  \/ Ls
  \/ FinalContributions
  \/ \E i \in DOMAIN repo : HandleFinalContributionsFile(i)
  \/ \E p \in ExcludePaths : ExcludeFile(p)

NextHandle ==
  \/ HandleStep
  \/ Open

SpecHandle == InitHandle /\ [][NextHandle]_vars

(***************************************************************************)
(* lib.rs: diff_stats and files_contributed_to, one walk of the history.   *)
(***************************************************************************)
\* delta.new_file().path() == None
NoPath == "<no-path>"

\* A git2::Diff: its DiffStats counts and the new paths of its deltas.
Diff(ins, del, paths) == [insertions |-> ins, deletions |-> del, deltas |-> paths]

\* One item of the revision walk. walk: "ok", "walk_err" (the walk yields an
\* error for the id) or "missing" (find_commit fails). parent: "some" (first
\* parent and its tree load), "root" (no parent) or "err" (either load
\* fails). vs_parent and vs_empty are the diffs of the commit's tree against
\* its first parent's tree and against the empty tree.
Commit(sig, walk, parent, tree_ok, diff_ok, stats_ok, vs_parent, vs_empty) ==
  [sig |-> sig, walk |-> walk, parent |-> parent, tree_ok |-> tree_ok,
   diff_ok |-> diff_ok, stats_ok |-> stats_ok,
   vs_parent |-> vs_parent, vs_empty |-> vs_empty]

\* Commits a history can hold.
CommitProfiles ==
  {Commit("A", "ok", "root", TRUE, TRUE, TRUE, Diff(10, 0, {"x"}), Diff(10, 0, {"x"})),
   Commit("A", "ok", "some", TRUE, TRUE, TRUE, Diff(0, 2, {"x", NoPath}), Diff(8, 0, {"x"})),
   Commit("B", "ok", "some", TRUE, TRUE, TRUE, Diff(5, 3, {"x", "y"}), Diff(13, 0, {"x", "y"})),
   Commit("B", "ok", "some", TRUE, TRUE, TRUE, Diff(0, 0, {}), Diff(13, 0, {"x", "y"})),
   Commit(NonUtf8, "ok", "some", TRUE, TRUE, TRUE, Diff(1, 1, {"y"}), Diff(14, 0, {"x", "y"})),
   Commit("A", "ok", "err", TRUE, TRUE, TRUE, Diff(1, 0, {"x"}), Diff(3, 0, {"x", "y"})),
   Commit("A", "missing", "some", TRUE, TRUE, TRUE, Diff(1, 0, {"x"}), Diff(1, 0, {"x"})),
   Commit("A", "walk_err", "some", TRUE, TRUE, TRUE, Diff(1, 0, {"x"}), Diff(1, 0, {"x"})),
   Commit("B", "ok", "some", FALSE, TRUE, TRUE, Diff(1, 0, {"y"}), Diff(1, 0, {"y"})),
   Commit("A", "ok", "some", TRUE, FALSE, TRUE, Diff(1, 0, {"y"}), Diff(1, 0, {"y"})),
   Commit("B", "ok", "some", TRUE, TRUE, FALSE, Diff(1, 0, {"y"}), Diff(1, 0, {"y"})),
   Commit(NonUtf8, "ok", "some", TRUE, TRUE, FALSE, Diff(1, 0, {"y"}), Diff(1, 0, {"y"}))}

\* Histories: revwalk()/push_head() fail, or the walk yields MaxCommits
\* items in the order git2 visits them.
Histories ==
  {[walk_ok |-> FALSE, commits |-> <<>>]}
  \cup {[walk_ok |-> TRUE, commits |-> c] : c \in [1..MaxCommits -> CommitProfiles]}

GitError == [ok |-> FALSE, err |-> "GitError"]

\* DiffStats::default
DiffStatsDefault == [insertions |-> 0, deletions |-> 0]

\* A += that adds each count of the diff to the other field.
diff_stats_add_assign_swapped(self, other) ==
  [insertions |-> self.insertions + other.deletions,
   deletions  |-> self.deletions + other.insertions]

\* A += that keeps the counts of the diff only.
diff_stats_add_assign_replace(self, other) ==
  [insertions |-> other.insertions, deletions |-> other.deletions]

\* impl AddAssign<git2::DiffStats> for DiffStats
diff_stats_add_assign(self, other) ==
  [insertions |-> self.insertions + other.insertions,
   deletions  |-> self.deletions + other.deletions]

\* A walk that hands every id on as a commit.
loaded_always(commit) == TRUE

\* .flatten().filter_map(|id| find_commit(id).ok()): the items that reach
\* the fold
loaded(commit) == commit.walk = "ok"

\* An old tree that is the one the diff against the parent was taken from
\* whenever the commit is not a root commit, loaded or not.
old_tree_of_any_parent(commit) ==
  IF commit.parent # "root" THEN [some |-> TRUE] ELSE [some |-> FALSE]

\* commit.parent(0).map_or(None, |parent| parent.tree().map_or(None, Some))
old_tree(commit) == IF commit.parent = "some" THEN [some |-> TRUE] ELSE [some |-> FALSE]

\* repository.diff_tree_to_tree(old_tree.as_ref(), Some(&new_tree), None)
diff_tree_to_tree(commit, old) ==
  IF ~commit.diff_ok THEN GitError
  ELSE [ok |-> TRUE, diff |-> IF old.some THEN commit.vs_parent ELSE commit.vs_empty]

\* diff.deltas().fold(HashSet::new(), ..): the new paths that exist
delta_paths(diff) == diff.deltas \ {NoPath}

\* A closure that passes over a commit whose tree or diff cannot be had.
diff_stats_closure_lenient(contribs, commit) ==
  IF ~commit.tree_ok \/ ~commit.diff_ok THEN [ok |-> TRUE, val |-> contribs]
  ELSE LET diff == diff_tree_to_tree(commit, old_tree(commit))
           name == sig_name(commit.sig)
       IN IF ~name.some THEN [ok |-> TRUE, val |-> contribs]
          ELSE IF ~commit.stats_ok THEN GitError
          ELSE [ok |-> TRUE,
                val |-> [a \in DOMAIN contribs \cup {name.val} |->
                           IF a = name.val
                             THEN diff_stats_add_assign(
                                    IF a \in DOMAIN contribs THEN contribs[a]
                                    ELSE DiffStatsDefault, diff.diff)
                             ELSE contribs[a]]]

\* the try_fold closure of diff_stats
diff_stats_closure(contribs, commit) ==
  IF ~commit.tree_ok THEN GitError
  ELSE LET diff == diff_tree_to_tree(commit, old_tree(commit))
           name == sig_name(commit.sig)
       IN IF ~diff.ok THEN diff
          ELSE IF ~name.some THEN [ok |-> TRUE, val |-> contribs]
          ELSE IF ~commit.stats_ok THEN GitError
          ELSE [ok |-> TRUE,
                val |-> [a \in DOMAIN contribs \cup {name.val} |->
                           IF a = name.val
                             THEN diff_stats_add_assign(
                                    IF a \in DOMAIN contribs THEN contribs[a]
                                    ELSE DiffStatsDefault, diff.diff)
                             ELSE contribs[a]]]

\* A closure that stores the files of the commit in place of the union.
files_contributed_to_closure_replace(contribs, commit) ==
  IF ~commit.tree_ok THEN GitError
  ELSE LET diff == diff_tree_to_tree(commit, old_tree(commit))
           name == sig_name(commit.sig)
       IN IF ~diff.ok THEN diff
          ELSE IF ~name.some THEN [ok |-> TRUE, val |-> contribs]
          ELSE [ok |-> TRUE,
                val |-> [a \in DOMAIN contribs \cup {name.val} |->
                           IF a = name.val THEN delta_paths(diff.diff)
                           ELSE contribs[a]]]

\* A closure that makes no entry for a commit without deltas.
files_contributed_to_closure_skip_empty(contribs, commit) ==
  IF ~commit.tree_ok THEN GitError
  ELSE LET diff == diff_tree_to_tree(commit, old_tree(commit))
           name == sig_name(commit.sig)
       IN IF ~diff.ok THEN diff
          ELSE IF ~name.some \/ delta_paths(diff.diff) = {}
            THEN [ok |-> TRUE, val |-> contribs]
          ELSE LET touched == delta_paths(diff.diff)
                   prev_files == IF name.val \in DOMAIN contribs
                                   THEN contribs[name.val] ELSE {}
               IN [ok |-> TRUE,
                   val |-> [a \in DOMAIN contribs \cup {name.val} |->
                              IF a = name.val THEN touched \cup prev_files
                              ELSE contribs[a]]]

\* the try_fold closure of files_contributed_to
files_contributed_to_closure(contribs, commit) ==
  IF ~commit.tree_ok THEN GitError
  ELSE LET diff == diff_tree_to_tree(commit, old_tree(commit))
           name == sig_name(commit.sig)
       IN IF ~diff.ok THEN diff
          ELSE IF ~name.some THEN [ok |-> TRUE, val |-> contribs]
          ELSE LET touched == delta_paths(diff.diff)
                   prev_files == IF name.val \in DOMAIN contribs
                                   THEN contribs[name.val] ELSE {}
               IN [ok |-> TRUE,
                   val |-> [a \in DOMAIN contribs \cup {name.val} |->
                              IF a = name.val THEN touched \cup prev_files
                              ELSE contribs[a]]]

\* the fold closure of contributors: the name is inserted when it decodes
contributors_closure(set, commit) ==
  LET name == sig_name(commit.sig)
  IN [ok |-> TRUE, val |-> IF name.some THEN set \cup {name.val} ELSE set]

\* Commit::from: the wrapper around the git2 commit
commit_from(inner) == [inner |-> inner]

\* commits: .map(Commit::from), the items collected in the order yielded
commits_closure(list, commit) == [ok |-> TRUE, val |-> Append(list, commit_from(commit))]

\* The closure of the call op.
closure(op, contribs, commit) ==
  IF op = "diff_stats" THEN diff_stats_closure(contribs, commit)
  ELSE IF op = "files_contributed_to" THEN files_contributed_to_closure(contribs, commit)
  ELSE IF op = "contributors" THEN contributors_closure(contribs, commit)
  ELSE commits_closure(contribs, commit)

\* What the fold of the call op starts from: HashMap::new(), HashSet::new(),
\* or no item yielded yet.
fold_init(op) ==
  IF op = "contributors" THEN {}
  ELSE IF op = "commits" THEN <<>>
  ELSE EmptyMap

\* .try_fold(HashMap::new(), ..) over the items of the walk from item i
RECURSIVE try_fold(_, _, _, _)
try_fold(op, contribs, commits, i) ==
  IF i > Len(commits) THEN [ok |-> TRUE, val |-> contribs]
  ELSE IF ~loaded(commits[i]) THEN try_fold(op, contribs, commits, i + 1)
  ELSE LET r == closure(op, contribs, commits[i])
       IN IF ~r.ok THEN r ELSE try_fold(op, r.val, commits, i + 1)

\* GitDetective::diff_stats / GitDetective::files_contributed_to as a whole
walk(op, h) ==
  IF ~h.walk_ok THEN GitError ELSE try_fold(op, fold_init(op), h.commits, 1)

InitHist ==
  /\ history \in Histories
  /\ hop = "none" /\ hpc = "idle" /\ hpos = 0 /\ hacc = EmptyMap /\ hres = NoResult
  /\ RepoIdle /\ CallIdle /\ FileIdle /\ MergeIdle /\ HandleIdle /\ CoIdle

\* let mut rev_walk = self.repository.revwalk()?; rev_walk.push_head()?;
Begin(op) ==
  /\ hpc = "idle"
  /\ hop' = op
  /\ IF history.walk_ok
       THEN /\ hpc' = "walk" /\ hpos' = 1 /\ hacc' = fold_init(op)
            /\ UNCHANGED hres
       ELSE /\ hpc' = "done" /\ hres' = GitError
            /\ UNCHANGED <<hpos, hacc>>
  /\ UNCHANGED <<history, repoVars, callVars, fileVars, mergeVars, handleVars, coVars>>

\* GitDetective::diff_stats is called
DiffStats == Begin("diff_stats")

\* GitDetective::files_contributed_to is called
FilesContributedTo == Begin("files_contributed_to")

\* GitDetective::contributors is called
Contributors == Begin("contributors")

\* GitDetective::commits is called and its iterator is run to its end
Commits == Begin("commits")

\* The next item of the walk: skipped, folded in, or the error that ends
\* the call
Visit ==
  /\ hpc = "walk"
  /\ hpos <= Len(history.commits)
  /\ LET commit == history.commits[hpos]
         r == closure(hop, hacc, commit)
     IN IF ~loaded(commit)
          THEN /\ hpos' = hpos + 1
               /\ UNCHANGED <<hpc, hacc, hres>>
          ELSE IF r.ok
            THEN /\ hacc' = r.val
                 /\ hpos' = hpos + 1
                 /\ UNCHANGED <<hpc, hres>>
            ELSE /\ hres' = r
                 /\ hpc' = "done"
                 /\ UNCHANGED <<hpos, hacc>>
  /\ UNCHANGED <<history, hop, repoVars, callVars, fileVars, mergeVars, handleVars, coVars>>

\* Ok(.. try_fold(..)?): the walk is exhausted
Return ==
  /\ hpc = "walk"
  /\ hpos > Len(history.commits)
  /\ hres' = [ok |-> TRUE, val |-> hacc]
  /\ hpc' = "done"
  /\ UNCHANGED <<history, hop, hpos, hacc, repoVars, callVars, fileVars, mergeVars,
                 handleVars, coVars>>

NextHist ==
  \/ DiffStats
  \/ FilesContributedTo
  \/ Contributors
  \/ Commits
  \/ Visit
  \/ Return

SpecHist == InitHist /\ [][NextHist]_vars

(***************************************************************************)
(* lib.rs: checkout of a tag, branch or commit.                            *)
(***************************************************************************)
\* git2::RepositoryState
RepositoryStates ==
  {"Clean", "Merge", "Revert", "RevertSequence", "CherryPick", "CherryPickSequence",
   "Bisect", "Rebase", "RebaseInteractive", "RebaseMerge", "ApplyMailbox",
   "ApplyMailboxOrRebase"}

\* Reference::target() of a symbolic reference, such as origin/HEAD.
NoTarget == "<no-target>"

\* References checkout is called with. id is what GitReference::id reads:
\* the id of a commit, the target of a branch (none when the branch is a
\* symbolic reference), the id of the tag object of a tag.
GitRefs ==
  {[kind |-> "commit", id |-> "c1"], [kind |-> "commit", id |-> "c2"],
   [kind |-> "branch", id |-> "c2"], [kind |-> "branch", id |-> "c3"],
   [kind |-> "branch", id |-> NoTarget],
   [kind |-> "tag", id |-> "t3"]}

\* The commit an object id peels to: the tag object t3 names commit c3.
peel(id) == IF id = "t3" THEN "c3" ELSE id

\* What the git2 calls of one checkout do: all succeed, into_object fails
\* (a branch that does not peel), checkout_tree fails before it writes, or
\* set_head_detached fails.
CheckoutOutcomes(git_ref) ==
  {"ok", "tree_err", "head_err"} \cup (IF git_ref.kind = "branch" THEN {"object_err"} ELSE {})

\* HEAD and working tree a repository is found in.
Checkouts ==
  {[head |-> [detached |-> FALSE, oid |-> "c1"], worktree |-> "c1"],
   [head |-> [detached |-> TRUE, oid |-> "c2"], worktree |-> "c2"]}

\* A checkout that does not look at the repository state.
checkout_unchecked(state, hd, wt, git_ref, outcome) ==
  IF git_ref.id = NoTarget
    THEN [out |-> Panic, head |-> hd, worktree |-> wt]
  ELSE IF outcome \in {"object_err", "tree_err"}
    THEN [out |-> GitError, head |-> hd, worktree |-> wt]
  ELSE IF outcome = "head_err"
    THEN [out |-> GitError, head |-> hd, worktree |-> peel(git_ref.id)]
  ELSE [out |-> [ok |-> TRUE],
        head |-> [detached |-> TRUE, oid |-> peel(git_ref.id)],
        worktree |-> peel(git_ref.id)]

\* GitDetective::checkout: what it returns, and HEAD and the working tree
\* it leaves
checkout(state, hd, wt, git_ref, outcome) ==
  IF state # "Clean"
    THEN [out |-> [ok |-> FALSE, err |-> "UncleanState", state |-> state],
          head |-> hd, worktree |-> wt]
  ELSE IF git_ref.id = NoTarget
    THEN \* git_ref.id(): target().unwrap() on None
         [out |-> Panic, head |-> hd, worktree |-> wt]
  ELSE IF outcome \in {"object_err", "tree_err"}
    THEN \* git_ref.into_object()? / checkout_tree(..)?
         [out |-> GitError, head |-> hd, worktree |-> wt]
  ELSE IF outcome = "head_err"
    THEN \* set_head_detached(oid)? after the tree was checked out
         [out |-> GitError, head |-> hd, worktree |-> peel(git_ref.id)]
  ELSE [out |-> [ok |-> TRUE],
        head |-> [detached |-> TRUE, oid |-> peel(git_ref.id)],
        worktree |-> peel(git_ref.id)]

InitCheckout ==
  /\ rstate \in RepositoryStates
  /\ \E c \in Checkouts : head = c.head /\ worktree = c.worktree
  /\ cocall = NoCall
  /\ RepoIdle /\ CallIdle /\ FileIdle /\ MergeIdle /\ HandleIdle /\ HistIdle

\* GitDetective::checkout
Checkout(git_ref) ==
  /\ \E outcome \in CheckoutOutcomes(git_ref) :
       LET r == checkout(rstate, head, worktree, git_ref, outcome)
       IN /\ head' = r.head
          /\ worktree' = r.worktree
          /\ cocall' = [op |-> "checkout", git_ref |-> git_ref, state |-> rstate,
                        head |-> head, worktree |-> worktree, out |-> r.out]
  /\ UNCHANGED <<rstate, repoVars, callVars, fileVars, mergeVars, handleVars, histVars>>

NextCheckout == \E git_ref \in GitRefs : Checkout(git_ref)

SpecCheckout == InitCheckout /\ [][NextCheckout]_vars

(***************************************************************************)
(* What the attribution of one file should be, stated on the inputs.       *)
(***************************************************************************)
\* The line numbers a blame gives to author a (a hunk whose name decodes to
\* a covers them) that the annotation classifies.
Resolvable(f, a) ==
  {n \in 1..MaxLines :
     /\ n \in DOMAIN f.read.ann
     /\ \E i \in DOMAIN f.blame.hunks :
          /\ f.blame.hunks[i].sig = a
          /\ f.blame.hunks[i].start <= n
          /\ n < f.blame.hunks[i].start + f.blame.hunks[i].len}

\* Those lines counted by kind.
Counted(f, a) ==
  [lines    |-> Cardinality(Resolvable(f, a)),
   code     |-> Cardinality({n \in Resolvable(f, a) : f.read.ann[n] = "Code"}),
   comments |-> Cardinality({n \in Resolvable(f, a) : f.read.ann[n] = "Comment"}),
   blanks   |-> Cardinality({n \in Resolvable(f, a) : f.read.ann[n] = "Blank"})]

\* The path the classifier is asked to read for a file of the working tree.
OffendingPath(f) ==
  IF f.path.abs THEN f.path ELSE [abs |-> TRUE, comps |-> <<"repo">> \o f.path.comps]

(***************************************************************************)
(* Claims about final_contributions_file (SpecFile).                       *)
(***************************************************************************)
\* C9: final_contributions_file is strict. A failed blame returns the git
\* error; a failed read after a successful blame, in a repository with a
\* working directory, returns IOError carrying the path that could not be
\* read; in both cases the result is an error and holds no (language,
\* author -> Stats) value. (In a bare repository the call does not get to
\* the read: workdir() panics.)
C9_StrictFileCall ==
  fpc = "done" =>
    /\ ~ffile.blame.ok => fout = [ok |-> FALSE, err |-> "GitError"]
    /\ (ffile.blame.ok /\ ~bare /\ ~ffile.read.ok) =>
         fout = [ok |-> FALSE, err |-> "IOError", path |-> OffendingPath(ffile)]
    /\ (~ffile.blame.ok \/ ~ffile.read.ok) =>
         (~fout.ok /\ "contributions" \notin DOMAIN fout /\ "lang" \notin DOMAIN fout)

\* C9 witness: a call on a relative path whose blame succeeded and whose
\* read failed has returned IOError.
C9_Witness ==
  /\ fpc = "done" /\ ffile.blame.ok /\ ~ffile.read.ok /\ ~ffile.path.abs
  /\ Len(ffile.blame.hunks) > 0
  /\ ~fout.ok /\ fout.err = "IOError"

\* C10: a successful per-file attribution credits each author with exactly
\* the lines of their hunks that have an annotation, by kind; lines of a
\* hunk without an annotation are skipped, and an author without a key has
\* no such line.
C10_CountsResolvableLines ==
  (fpc = "done" /\ fout.ok) =>
    /\ DOMAIN fout.contributions \subseteq Authors
    /\ \A a \in Authors :
         /\ a \in DOMAIN fout.contributions => fout.contributions[a] = Counted(ffile, a)
         /\ a \notin DOMAIN fout.contributions => Resolvable(ffile, a) = {}

\* C10 witness: a two-line hunk of A whose first line has no annotation and
\* whose second line is counted.
C10_Witness ==
  /\ fpc = "done" /\ fout.ok
  /\ ffile.blame.hunks = <<[start |-> 1, len |-> 2, sig |-> "A"]>>
  /\ DOMAIN ffile.read.ann = {2}
  /\ "A" \in DOMAIN fout.contributions
  /\ fout.contributions["A"].lines = 1

\* A hunk whose author name decodes.
Decodable(hunk) == hunk.sig \in Authors

\* The same file with the undecodable hunks taken out of its blame.
WithoutUndecodable(f) ==
  [f EXCEPT !.blame = [ok |-> TRUE, hunks |-> SelectSeq(f.blame.hunks, Decodable)]]

\* C11: a hunk whose author name cannot be decoded is dropped as a whole.
\* In a call that gets to the hunks (the file can be blamed and, in the
\* working directory, read) it raises no error, nothing is credited under
\* an undecodable name, and the returned value is the one the same file returns with the undecodable
\* hunks absent from its blame: their lines are credited to nobody and the
\* Stats of every other hunk are unaffected.
C11_UndecodableHunkDropped ==
  (fpc = "done" /\ ~bare /\ ffile.blame.ok /\ ffile.read.ok) =>
    /\ fout.ok
    /\ NonUtf8 \notin DOMAIN fout.contributions
    /\ fout = final_contributions_file(WithoutUndecodable(ffile))

\* C11 witness: the first hunk is undecodable, its line is annotated, and
\* the hunk after it is credited to A alone.
C11_Witness ==
  /\ fpc = "done" /\ fout.ok
  /\ ffile.blame.hunks = <<[start |-> 1, len |-> 1, sig |-> NonUtf8],
                           [start |-> 2, len |-> 1, sig |-> "A"]>>
  /\ DOMAIN ffile.read.ann = {1, 2}
  /\ DOMAIN fout.contributions = {"A"}
  /\ fout.contributions["A"].lines = 1
(***************************************************************************)
(* What a merge of per-file results should be, stated on the inputs.       *)
(***************************************************************************)
RECURSIVE SumField(_, _, _, _)
SumField(res, ids, a, field) ==
  IF ids = {} THEN 0
  ELSE LET i == CHOOSE x \in ids : TRUE
       IN res[i].contributions[a][field] + SumField(res, ids \ {i}, a, field)

\* Authors unioned, languages of an author unioned, Stats of an (author,
\* language) added component-wise, over the per-file results res[i], i in ids.
Merged(res, ids) ==
  [a \in UNION {DOMAIN res[i].contributions : i \in ids} |->
     [l \in {res[i].lang : i \in {j \in ids : a \in DOMAIN res[j].contributions}} |->
        LET same == {i \in ids : res[i].lang = l /\ a \in DOMAIN res[i].contributions}
        IN [lines    |-> SumField(res, same, a, "lines"),
            code     |-> SumField(res, same, a, "code"),
            comments |-> SumField(res, same, a, "comments"),
            blanks   |-> SumField(res, same, a, "blanks")]]]

\* Every Stats held by a ProjectStats.
StatsOf(ps) == {ps[k[1]][k[2]] : k \in Keys(ps)}

(***************************************************************************)
(* Claims about the merge (SpecMerge).                                     *)
(***************************************************************************)
\* C1: whatever the order and grouping in which per-file results are
\* converted and merged, and whatever the HashMap iteration order, the value
\* built from a set of results is the union of their authors, per author
\* the union of languages, per (author, language) the component-wise sum.
C1_MergeOrderIndependent ==
  \A p \in pool : p.val = Merged(items, p.ids)

\* C1 witness: all results have been merged into one value in which one
\* author has two languages and one (author, language) sums two results.
C1_Witness ==
  /\ \E p \in pool : /\ p.ids = DOMAIN items
                     /\ \E a \in DOMAIN p.val : Cardinality(DOMAIN p.val[a]) = 2
                     /\ \E a \in DOMAIN p.val : \E l \in DOMAIN p.val[a] :
                          Cardinality({i \in p.ids : items[i].lang = l
                                         /\ a \in DOMAIN items[i].contributions}) >= 2
  /\ last.kind = "pair"

\* C2: the zero value is the identity. ProjectStats::default() merged into P
\* on either side gives P, and Stats::default() added to any Stats held gives
\* that Stats.
C2_DefaultIsIdentity ==
  /\ last.kind = "default_rhs" => last.out = last.lhs
  /\ last.kind = "default_lhs" => last.out = last.rhs
  /\ \A p \in pool : \A s \in StatsOf(p.val) :
       /\ stats_add(s, StatsDefault) = s
       /\ stats_add(StatsDefault, s) = s
       /\ stats_add_assign(s, StatsDefault) = s
       /\ stats_add_assign(StatsDefault, s) = s

\* C2 witness: the default has been merged on the left of a value in which
\* an author has two languages, and the value came out unchanged.
C2_Witness ==
  /\ last.kind = "default_lhs"
  /\ \E a \in DOMAIN last.rhs : Cardinality(DOMAIN last.rhs[a]) = 2
  /\ \E p \in pool : p.val = last.out /\ Cardinality(p.ids) >= 2
(***************************************************************************)
(* What one final_contributions call should return, stated on the          *)
(* snapshot.                                                               *)
(***************************************************************************)
\* The status entries the call listed.
Listed == {files[k] : k \in DOMAIN files}

\* A file that can be blamed and read.
Good(f) == f.blame.ok /\ f.read.ok

\* The result of attributing entry i of the snapshot, stated on its blame
\* and annotation.
Declared(i) ==
  [lang |-> IF repo[i].detected = NoLang THEN "Plain Text" ELSE repo[i].detected,
   contributions |-> [a \in {b \in Authors : Resolvable(repo[i], b) # {}} |->
                        Counted(repo[i], a)]]

\* The project statistics of a set of good entries of the snapshot.
DeclaredProject(ids) == Merged([i \in ids |-> Declared(i)], ids)

\* Every Stats the call holds: in a partial result of the reduce, in the
\* returned ProjectStats, and in a total by name of the returned value.
LiveStats ==
  UNION {StatsOf(s.val) : s \in segs}
  \cup (IF result.ok
          THEN StatsOf(result.val)
               \cup {total_contribs_by_name(result.val, a).val : a \in DOMAIN result.val}
          ELSE {})

(***************************************************************************)
(* Claims about final_contributions (Spec).                                *)
(***************************************************************************)
\* C3: every Stats value the call produces has lines = code + comments +
\* blanks: in every partial result, in the returned ProjectStats and in
\* total_contribs_by_name of it.
C3_LinesIsSumOfKinds ==
  \A s \in LiveStats : s.lines = s.code + s.comments + s.blanks

\* C3 witness: the call returned an author with two languages whose total
\* holds at least three lines, one of them blank.
C3_Witness ==
  /\ pc = "done" /\ result.ok
  /\ \E a \in DOMAIN result.val :
       /\ Cardinality(DOMAIN result.val[a]) = 2
       /\ total_contribs_by_name(result.val, a).val.lines >= 3
       /\ total_contribs_by_name(result.val, a).val.blanks >= 1

\* C4: the value returned for a snapshot and exclusion set is the one a
\* single thread folding the listed files in order returns, whatever the
\* number of workers, their interleaving, the shape of the reduction and the
\* HashMap iteration orders.
C4_ScheduleIndependent ==
  (pc = "done" /\ result.ok) => result.val = sequential_run(files)

\* C4 witness: three files were listed and the call returned two authors.
C4_Witness ==
  /\ pc = "done" /\ result.ok
  /\ Len(files) = 3
  /\ Cardinality(DOMAIN result.val) = 2

\* C5: at most one worker is between acquiring the lock and releasing it
\* (in blame_file or after it), and that worker is the holder of the lock.
C5_BlameMutuallyExclusive ==
  /\ Cardinality({w \in Workers : wpc[w] \in {"blame", "attribute"}}) <= 1
  /\ \A w \in Workers : wpc[w] \in {"blame", "attribute"} => lock = w

\* C5 witness: one worker is about to blame while another waits for the lock.
C5_Witness ==
  \E v, w \in Workers : wpc[v] = "blame" /\ wpc[w] = "lock" /\ lock = v

\* C6 (as claimed): a worker that reads and classifies a file does not hold
\* the lock and makes no worker wait.
C6_ClassifyOutsideGate ==
  \A w \in Workers : wpc[w] = "attribute" =>
     /\ lock # w
     /\ \A v \in Workers : wpc[v] = "lock" => can_lock(v)

\* C7: a call whose listing succeeded returns Ok; files that fail to blame or
\* to read contribute nothing, the rest contribute what they would alone; an
\* author with lines only in failing files is absent.
C7_BestEffortPerFile ==
  (pc = "done" /\ lsOk) =>
    /\ result.ok
    /\ result.val = DeclaredProject({i \in Listed : Good(repo[i])})
    /\ \A a \in Authors :
         (\A i \in Listed : Good(repo[i]) => Resolvable(repo[i], a) = {})
           => a \notin DOMAIN result.val

\* C7 witness: a listed file could not be read, its blamed author B is absent
\* from the returned value, and another author is present.
C7_Witness ==
  /\ pc = "done" /\ result.ok
  /\ \E i \in Listed : /\ repo[i].blame.ok /\ ~repo[i].read.ok
                       /\ \E k \in DOMAIN repo[i].blame.hunks : repo[i].blame.hunks[k].sig = "B"
  /\ \E i \in Listed : ~repo[i].blame.ok
  /\ "B" \notin DOMAIN result.val
  /\ "A" \in DOMAIN result.val

\* C8 (as documented): when a listed file fails to be read or to be blamed,
\* final_contributions returns an error, IOError or GitError.
C8_FileErrorIsReturned ==
  (pc = "done" /\ \E i \in Listed : ~Good(repo[i])) =>
    (~result.ok /\ result.err \in {"IOError", "GitError"})

\* The lines of a file that are attributed: they lie in a hunk whose author
\* name decodes and they have an annotation.
AttributedLines(f) == UNION {Resolvable(f, a) : a \in Authors}

\* The number of attributed lines of a set of entries of the snapshot.
RECURSIVE SumAttributed(_)
SumAttributed(ids) ==
  IF ids = {} THEN 0
  ELSE LET i == CHOOSE x \in ids : TRUE
       IN Cardinality(AttributedLines(repo[i])) + SumAttributed(ids \ {i})

\* C12: total_lines() of the value final_contributions returns is the sum,
\* over the listed files that were blamed and classified, of the number of
\* attributed lines of the file; each such line is counted once and a
\* dropped file adds nothing.
C12_TotalLinesConserved ==
  (pc = "done" /\ result.ok) =>
    total_lines(result.val) = SumAttributed({i \in Listed : Good(repo[i])})

\* C12 witness: three files were listed; one was dropped although its blame
\* names a line, one holds a line without annotation and one a line of an
\* undecodable hunk, and the total is the two attributed lines.
C12_Witness ==
  /\ pc = "done" /\ result.ok /\ Len(files) = 3
  /\ \E i \in Listed : repo[i].blame.ok /\ ~repo[i].read.ok
  /\ \E i \in Listed : Good(repo[i]) /\ DOMAIN repo[i].read.ann # 1..2
  /\ \E i \in Listed : /\ Good(repo[i])
                        /\ \E k \in DOMAIN repo[i].blame.hunks :
                             repo[i].blame.hunks[k].sig = NonUtf8
  /\ total_lines(result.val) = 2

(***************************************************************************)
(* Claims about exclusion (SpecHandle).                                    *)
(***************************************************************************)
\* The entries of the snapshot whose path is not in the exclusion set.
NotExcluded == {i \in DOMAIN repo : repo[i].path \notin excluded}

\* C13: once exclude_file(p) was called on a handle, a later ls() holds no
\* entry with path p and a later final_contributions() nothing from p; the
\* entries that are not excluded are all listed, in status order, and the
\* value returned is the declared project of the good ones among them.
C13_ExcludedIsAbsent ==
  /\ (hcall.op = "ls" /\ hcall.out.ok) =>
       /\ {hcall.out.files[k] : k \in DOMAIN hcall.out.files} = NotExcluded
       /\ \A j, k \in DOMAIN hcall.out.files :
            j < k => hcall.out.files[j] < hcall.out.files[k]
  /\ (hcall.op = "final_contributions" /\ hcall.out.ok) =>
       hcall.out.val = DeclaredProject({i \in NotExcluded : Good(repo[i])})

\* C13 witness: the first entry, the only one with lines of A, is excluded;
\* final_contributions returned B without A.
C13_Witness ==
  /\ hcall.op = "final_contributions" /\ hcall.out.ok
  /\ excluded = {RelPath(PathNames[1])}
  /\ Good(repo[1]) /\ Resolvable(repo[1], "A") # {}
  /\ DOMAIN hcall.out.val = {"B"}

\* The exclusion sets in use after one more operation: ls,
\* final_contributions and final_contributions_file leave the set,
\* exclude_file inserts a path, open starts a handle anew.
AfterOneOperation ==
  {excluded} \cup {exclude_file(excluded, q) : q \in ExcludePaths} \cup {open(excluded)}

\* C14 (as claimed): exclusion round-trips. For every excluded path there is
\* an operation (of the handle, or opening a handle anew) after which ls()
\* and final_contributions() return what they returned before that path was
\* excluded, the other exclusions standing.
C14_ReincludeOnHandle ==
  \A p \in excluded :
    \E after \in AfterOneOperation :
      /\ ls(repo, lsOk, after) = ls(repo, lsOk, excluded \ {p})
      /\ final_contributions(repo, lsOk, after)
           = final_contributions(repo, lsOk, excluded \ {p})

\* C14 (amended): no operation of a handle re-includes a path; exclusions
\* are only dropped, all at once, by opening a handle anew, and ls() and
\* final_contributions() of the new handle return the results obtained
\* before the first exclusion.
C14_NewHandleRestores ==
  /\ [][hcall'.op # "open" => excluded \subseteq excluded']_vars
  /\ [][hcall'.op = "open" => excluded' = {}]_vars
  /\ []((hfresh /\ hbase.ever # {} /\ hcall.op \in {"ls", "final_contributions"}
           /\ hbase[hcall.op] # NoResult)
          => hcall.out = hbase[hcall.op])

\* C14 witness: final_contributions returned a value with A, the first entry
\* and then the second were excluded, a handle was opened anew and its
\* final_contributions returned the value with A again.
C14_Witness ==
  /\ hfresh /\ {RelPath(PathNames[1]), RelPath(PathNames[2])} \subseteq hbase.ever
  /\ hcall.op = "final_contributions" /\ hcall.out.ok
  /\ hbase.final_contributions.ok
  /\ Good(repo[1]) /\ Resolvable(repo[1], "A") # {}
  /\ \A i \in DOMAIN repo : i # 1 => (Good(repo[i]) /\ Resolvable(repo[i], "A") = {})
  /\ "A" \in DOMAIN hcall.out.val

(***************************************************************************)
(* What a walk of the history should return, stated on the commits.        *)
(***************************************************************************)
\* The calls that diff every commit of the walk.
TreeWalks == {"diff_stats", "files_contributed_to"}

\* The items of the walk that are commits authored by a.
Own(a) == {i \in DOMAIN history.commits :
             history.commits[i].walk = "ok" /\ history.commits[i].sig = a}

\* The diff of a commit: against its first parent, or against the empty
\* tree when it has none or the parent cannot be had.
CommitDiff(commit) ==
  IF commit.parent = "some" THEN commit.vs_parent ELSE commit.vs_empty

RECURSIVE SumDiff(_, _)
SumDiff(ids, field) ==
  IF ids = {} THEN 0
  ELSE LET i == CHOOSE x \in ids : TRUE
       IN CommitDiff(history.commits[i])[field] + SumDiff(ids \ {i}, field)

\* The new paths of the deltas of the commits of a among the first n items.
Touched(a, n) ==
  UNION {CommitDiff(history.commits[i]).deltas \ {NoPath} : i \in Own(a) \cap 1..n}

\* The author -> file-set map of the first n items.
TouchedMap(n) ==
  [a \in {b \in Authors : Own(b) \cap 1..n # {}} |-> Touched(a, n)]

\* The items at which a call ends with an error: the commit's tree or the
\* diff cannot be had, or, in diff_stats, the statistics of the diff of a
\* commit with a decodable author.
Aborting ==
  {i \in DOMAIN history.commits :
     LET c == history.commits[i]
     IN /\ c.walk = "ok"
        /\ \/ ~c.tree_ok
           \/ ~c.diff_ok
           \/ hop = "diff_stats" /\ c.sig \in Authors /\ ~c.stats_ok}

\* The history with its items in another visiting order.
Reordered(order) ==
  [history EXCEPT !.commits = [k \in DOMAIN order |-> history.commits[order[k]]]]

(***************************************************************************)
(* Claims about diff_stats and files_contributed_to (SpecHist).            *)
(***************************************************************************)
\* C15: when diff_stats succeeds, its keys are the decodable authors of the
\* commits of the walk, and the DiffStats of an author holds the sum of the
\* insertions and the sum of the deletions of the diffs of that author's
\* commits, each commit counted once.
C15_DiffStatsSumsPerAuthor ==
  (hpc = "done" /\ hop = "diff_stats" /\ hres.ok) =>
    /\ DOMAIN hres.val = {a \in Authors : Own(a) # {}}
    /\ \A a \in DOMAIN hres.val :
         hres.val[a] = [insertions |-> SumDiff(Own(a), "insertions"),
                        deletions  |-> SumDiff(Own(a), "deletions")]

\* C15 witness: A +10/-0 and +0/-2, B +5/-3 returned A +10/-2, B +5/-3.
C15_Witness ==
  /\ hpc = "done" /\ hop = "diff_stats" /\ hres.ok
  /\ Cardinality(Own("A")) = 2 /\ Cardinality(Own("B")) = 1
  /\ hres.val = ("A" :> [insertions |-> 10, deletions |-> 2]
                  @@ "B" :> [insertions |-> 5, deletions |-> 3])

\* C16: while files_contributed_to walks, and when it returns Ok, the set of
\* an author is the union of the new paths of the deltas of that author's
\* commits visited so far; a path is held once and, the union growing with
\* the items visited, no later commit removes one.
C16_FilesAreUnionPerAuthor ==
  /\ (hop = "files_contributed_to" /\ hpc = "walk") => hacc = TouchedMap(hpos - 1)
  /\ (hop = "files_contributed_to" /\ hpc = "done" /\ hres.ok) =>
       hres.val = TouchedMap(Len(history.commits))

\* C16 witness: A changed x in two commits, the later one after a commit of
\* B that changed x and y; A holds x alone.
C16_Witness ==
  /\ hop = "files_contributed_to" /\ hpc = "done" /\ hres.ok
  /\ Own("A") = {1, 3} /\ Own("B") = {2}
  /\ hres.val = ("A" :> {"x"} @@ "B" :> {"x", "y"})

\* C17: what diff_stats and files_contributed_to return is what they return
\* on every other visiting order of the same items.
C17_VisitOrderIndependent ==
  (hpc = "done" /\ hop \in TreeWalks) =>
    \A order \in Perms(DOMAIN history.commits) : walk(hop, Reordered(order)) = hres

\* C17 witness: three commits of two authors, no two alike, were walked by
\* diff_stats and a map with both authors was returned.
C17_Witness ==
  /\ hpc = "done" /\ hop = "diff_stats" /\ hres.ok
  /\ Cardinality({history.commits[i] : i \in DOMAIN history.commits}) = 3
  /\ Cardinality(Own("A")) = 2 /\ Cardinality(Own("B")) = 1
  /\ DOMAIN hres.val = {"A", "B"}

\* C18: when the tree of a commit of the walk or its diff cannot be had, the
\* call returns the git error and no map, and it ends at the first item
\* that fails; a call that returns Ok has met no such commit.
C18_WalkIsStrict ==
  (hpc = "done" /\ hop \in TreeWalks /\ history.walk_ok) =>
    /\ Aborting # {} =>
         /\ hres = GitError
         /\ "val" \notin DOMAIN hres
         /\ hpos \in Aborting /\ \A i \in Aborting : hpos <= i
    /\ hres.ok =>
         \A i \in DOMAIN history.commits :
           history.commits[i].walk = "ok" =>
             history.commits[i].tree_ok /\ history.commits[i].diff_ok

\* C18 witness: files_contributed_to folded a commit of A in, then met a
\* commit whose tree cannot be had, and returned the error.
C18_Witness ==
  /\ hpc = "done" /\ hop = "files_contributed_to"
  /\ hpos = 2 /\ ~history.commits[2].tree_ok
  /\ DOMAIN hacc = {"A"}
  /\ ~hres.ok

(***************************************************************************)
(* Claims about final_contributions_file and the working tree (SpecFile).  *)
(***************************************************************************)
\* C19 (as claimed): the result depends on the snapshot at HEAD alone. The
\* blame is that of HEAD; whatever the working-tree copy of the file holds
\* (other content, or no readable file), the call returns the same result.
C19_HeadSnapshotOnly ==
  fpc = "done" =>
    \A working \in ReadOutcomes :
      final_contributions_file([ffile EXCEPT !.read = working]) = fout

(***************************************************************************)
(* Claims about checkout (SpecCheckout).                                   *)
(***************************************************************************)
\* C20: a checkout called while the repository state is not Clean returns
\* UncleanState carrying that state and leaves HEAD and the working tree
\* as they were, whatever the reference.
C20_UncleanCheckoutRefused ==
  (cocall.op = "checkout" /\ cocall.state # "Clean") =>
    /\ cocall.out = [ok |-> FALSE, err |-> "UncleanState", state |-> cocall.state]
    /\ head = cocall.head
    /\ worktree = cocall.worktree

\* C20 witness: in the middle of a merge, with HEAD on a branch, the
\* checkout of a tag was refused.
C20_Witness ==
  /\ cocall.op = "checkout" /\ cocall.state = "Merge"
  /\ cocall.git_ref.kind = "tag"
  /\ ~cocall.out.ok /\ cocall.out.err = "UncleanState" /\ cocall.out.state = "Merge"
  /\ head = [detached |-> FALSE, oid |-> "c1"] /\ worktree = "c1"

\* C21 (as claimed): in a Clean repository every checkout of an existing
\* tag, branch or commit succeeds, leaves HEAD detached at the id of the
\* reference and the state Clean.
C21_EveryCheckoutSucceeds ==
  (cocall.op = "checkout" /\ cocall.state = "Clean") =>
    /\ cocall.out.ok
    /\ head = [detached |-> TRUE, oid |-> cocall.git_ref.id]
    /\ rstate = "Clean"

(***************************************************************************)
(* One handle, one repository: final_contributions, then operations that   *)
(* take &self, then final_contributions again.  A GitDetective is not      *)
(* shared between threads, so the operations of a handle follow each other.*)
(***************************************************************************)
\* Histories of the repository the handle is opened on: one whose walk cannot
\* start, one with a commit of B, one without a decodable author and the root
\* commit of A.
FrameHistories ==
  {[walk_ok |-> FALSE, commits |-> <<>>],
   [walk_ok |-> TRUE,
    commits |-> <<Commit("B", "ok", "some", TRUE, TRUE, TRUE,
                         Diff(5, 3, {"x", "y"}), Diff(13, 0, {"x", "y"})),
                  Commit(NonUtf8, "ok", "some", TRUE, TRUE, TRUE,
                         Diff(1, 1, {"y"}), Diff(14, 0, {"x", "y"})),
                  Commit("A", "ok", "root", TRUE, TRUE, TRUE,
                         Diff(10, 0, {"x"}), Diff(10, 0, {"x"}))>>]}

InitFrame ==
  /\ \E choice \in [1..NumFiles -> CoreFiles(RelPath("a.rs"))] :
       repo = [i \in 1..NumFiles |-> [choice[i] EXCEPT !.path = RelPath(PathNames[i])]]
  /\ \E sb \in StatusAndBare : lsOk = sb[1] /\ bare = sb[2]
  /\ excluded \in {{}, {RelPath(PathNames[1])}}
  /\ history \in FrameHistories
  /\ hop = "none" /\ hpc = "idle" /\ hpos = 0 /\ hacc = EmptyMap /\ hres = NoResult
  /\ CallIdle /\ FileIdle /\ MergeIdle /\ HandleIdle /\ CoIdle

\* The first final_contributions has returned, the second has not begun.
Between == pc = "done" /\ hbase.final_contributions = NoResult

\* An operation on &self between the two calls, and what it returned.
Read(op, out) ==
  /\ Between
  /\ hcall' = [op |-> op, out |-> out]
  /\ UNCHANGED <<hbase, hfresh, repoVars, callVars, fileVars, mergeVars, histVars, coVars>>

\* GitDetective::ls
FrameLs == Read("ls", ls(repo, lsOk, excluded))

\* GitDetective::final_contributions_file on an entry of the snapshot
FrameFinalContributionsFile ==
  \E i \in DOMAIN repo : Read("final_contributions_file", final_contributions_file(repo[i]))

\* GitDetective::diff_stats
FrameDiffStats == Read("diff_stats", walk("diff_stats", history))

\* GitDetective::files_contributed_to
FrameFilesContributedTo == Read("files_contributed_to", walk("files_contributed_to", history))

\* final_contributions is called again: what the first call returned is
\* kept for comparison, the locals of the first call are gone.  The Mutex,
\* the workers and the partial results are left as the first call left them.
Again ==
  /\ Between
  /\ hbase' = [hbase EXCEPT !.final_contributions = result]
  /\ pc' = "idle"
  /\ files' = <<>>
  /\ taken' = {}
  /\ acquired' = <<>>
  /\ result' = NoResult
  /\ UNCHANGED <<wpc, wfile, witem, lock, segs, hcall, hfresh, repoVars, fileVars, mergeVars,
               histVars, coVars>>

NextFrame ==
  \/ Next
  \/ FrameLs
  \/ FrameFinalContributionsFile
  \/ FrameDiffStats
  \/ FrameFilesContributedTo
  \/ Again

SpecFrame == InitFrame /\ [][NextFrame]_vars

\* C23: final_contributions, final_contributions_file, ls, diff_stats and
\* files_contributed_to leave the exclusion set as it was; when
\* final_contributions has returned no guard of the Mutex is alive, no worker
\* is on a file and no partial result is left; and a second
\* final_contributions on the unchanged repository returns what the first
\* returned.
C23_ReadsLeaveHandleAlone ==
  /\ [][excluded' = excluded]_vars
  /\ [](pc = "done" =>
          /\ lock = NoWorker
          /\ \A w \in Workers : wpc[w] = "idle" /\ wfile[w] = 0 /\ witem[w] = NoItem
          /\ segs = {})
  /\ []((pc = "done" /\ hbase.final_contributions # NoResult) =>
          result = hbase.final_contributions)

\* C23 witness: the first call returned lines of A and of B, diff_stats was
\* called, and the second call has returned.
C23_Witness ==
  /\ pc = "done" /\ result.ok
  /\ hbase.final_contributions.ok
  /\ DOMAIN hbase.final_contributions.val = {"A", "B"}
  /\ hcall.op = "diff_stats" /\ hcall.out.ok
  /\ excluded = {RelPath(PathNames[1])}

\* C22: under fair scheduling final_contributions runs to completion: a
\* worker only starts on a file no worker has started on, the Mutex is locked
\* at most once for a file and, when the call has returned, exactly once for
\* every listed file, with no guard alive and no worker waiting; a worker
\* stops waiting for the Mutex only by getting it, a worker that is through
\* with its file has released it, and the call eventually returns.
C22_RunsToCompletion ==
  /\ [][\A w \in Workers :
          (wfile'[w] # wfile[w] /\ wfile'[w] # 0) =>
             /\ wfile'[w] \in (1..Len(files)) \ taken
             /\ \A v \in Workers \ {w} : wfile'[v] # wfile'[w]]_vars
  /\ [](\A i \in DOMAIN acquired : acquired[i] <= 1)
  /\ [](pc = "done" =>
          /\ taken = 1..Len(files)
          /\ \A i \in 1..Len(files) : acquired[i] = 1
          /\ lock = NoWorker
          /\ \A w \in Workers : wpc[w] = "idle")
  /\ [][\A w \in Workers : (wpc[w] = "lock" /\ wpc'[w] # "lock") => lock' = w]_vars
  /\ [][\A w \in Workers :
          (lock = w /\ wpc'[w] \in {"fold", "idle"}) => lock' = NoWorker]_vars
  /\ <>(pc = "done")

C22_Witness ==
  /\ pc = "done" /\ result.ok
  /\ Len(files) = NumFiles
  /\ taken = 1..NumFiles
  /\ \A i \in 1..NumFiles : acquired[i] = 1
  /\ \E i \in 1..NumFiles : ~repo[i].blame.ok
  /\ \E i \in 1..NumFiles : repo[i].blame.ok /\ Len(repo[i].blame.hunks) > 1
  /\ lock = NoWorker

\* C24: when no language can be determined from the path of a file that
\* can be blamed and, in the working directory, read, the per-file
\* attribution succeeds, is labelled "Plain Text" and still credits every
\* author with the annotated lines of their hunks, by kind.
C24_PlainTextFallback ==
  (fpc = "done" /\ ~bare /\ ffile.detected = NoLang /\ ffile.blame.ok /\ ffile.read.ok) =>
    /\ fout.ok
    /\ fout.lang = "Plain Text"
    /\ \A a \in Authors :
         Resolvable(ffile, a) # {} =>
           /\ a \in DOMAIN fout.contributions
           /\ fout.contributions[a] = Counted(ffile, a)
           /\ fout.contributions[a].lines = Cardinality(Resolvable(ffile, a))

\* C24 witness: a file without a detectable language whose two annotated
\* lines are blamed to A and to B has been attributed as Plain Text.
C24_Witness ==
  /\ fpc = "done" /\ ffile.detected = NoLang /\ fout.ok
  /\ fout.lang = "Plain Text"
  /\ DOMAIN fout.contributions = {"A", "B"}
  /\ fout.contributions["A"].lines = 1 /\ fout.contributions["B"].lines = 1

\* A ProjectStats without zero entries: every author has a language and
\* every (author, language) entry holds at least one line.
NoZeroEntries(ps) ==
  \A a \in DOMAIN ps :
    /\ DOMAIN ps[a] # {}
    /\ \A l \in DOMAIN ps[a] : ps[a][l].lines >= 1

\* C25: the per-file map of every listed file that can be attributed holds
\* at least one line for each of its author keys, and every partial result
\* and the value final_contributions returns hold at least one line for each
\* (author, language) entry and at least one language for each author.
C25_NoZeroEntries ==
  /\ \A k \in DOMAIN files :
       LET r == final_contributions_file(repo[files[k]])
       IN r.ok => \A a \in DOMAIN r.contributions : r.contributions[a].lines >= 1
  /\ \A s \in segs : NoZeroEntries(s.val)
  /\ (pc = "done" /\ result.ok) => NoZeroEntries(result.val)

\* C25 witness: the call returned a value merged from three files, in one
\* of which the only line of A has no annotation; an author has two
\* languages.
C25_Witness ==
  /\ pc = "done" /\ result.ok
  /\ Len(files) = 3
  /\ \A k \in DOMAIN files : Good(repo[files[k]])
  /\ \E a \in DOMAIN result.val : Cardinality(DOMAIN result.val[a]) = 2
  /\ \E k \in DOMAIN files :
       /\ Resolvable(repo[files[k]], "A") = {}
       /\ \E i \in DOMAIN repo[files[k]].blame.hunks :
            repo[files[k]].blame.hunks[i].sig = "A"

\* The decodable author names of the commits of the walk.
WalkAuthors == {a \in Authors : Own(a) # {}}

\* All diffs of the commits of a are empty.
OnlyEmptyDiffs(a) ==
  \A i \in Own(a) :
    CommitDiff(history.commits[i]) = [insertions |-> 0, deletions |-> 0, deltas |-> {}]

\* C26: when diff_stats and files_contributed_to both succeed their key sets
\* are equal and are the set contributors() returns: the decodable author
\* names of the commits of the walk. A commit whose author name does not
\* decode adds no key, and an author whose commits all have empty diffs is
\* a key all the same, with 0 insertions and 0 deletions and an empty file
\* set.
C26_SameKeysAsContributors ==
  (hpc = "done" /\ hres.ok) =>
    LET ds == walk("diff_stats", history)
        fc == walk("files_contributed_to", history)
        co == walk("contributors", history)
    IN /\ hop = "contributors" => hres.val = WalkAuthors
       /\ (hop \in TreeWalks /\ ds.ok /\ fc.ok) =>
            /\ DOMAIN hres.val = DOMAIN ds.val
            /\ DOMAIN hres.val = DOMAIN fc.val
            /\ DOMAIN hres.val = co.val
            /\ DOMAIN hres.val = WalkAuthors
            /\ NonUtf8 \notin DOMAIN hres.val
            /\ \A a \in WalkAuthors :
                 OnlyEmptyDiffs(a) =>
                   hres.val[a] = IF hop = "diff_stats" THEN DiffStatsDefault ELSE {}

\* C26 witness: files_contributed_to walked a commit of B with an empty
\* diff, a commit without a decodable author and the root commit of A, and
\* returned A with x and B with no file.
C26_Witness ==
  /\ hpc = "done" /\ hop = "files_contributed_to" /\ hres.ok
  /\ Own("B") # {} /\ OnlyEmptyDiffs("B")
  /\ \E i \in DOMAIN history.commits : history.commits[i].sig = NonUtf8
  /\ walk("diff_stats", history).ok
  /\ hres.val = ("A" :> {"x"} @@ "B" :> {})

\* The history in which every commit whose first parent or parent's tree
\* cannot be had is a root commit with the same tree.
AsRoots ==
  [history EXCEPT !.commits =
     [i \in DOMAIN history.commits |->
        IF history.commits[i].parent = "err"
          THEN [history.commits[i] EXCEPT !.parent = "root"]
          ELSE history.commits[i]]]

\* C27: in diff_stats and files_contributed_to a first parent, or a tree of
\* it, that cannot be had does not end the walk: the call returns what it
\* returns when those commits are root commits, their whole tree counted as
\* insertions and touched files; the call returns an error only at a commit
\* whose own tree or diff cannot be had or, in diff_stats, whose diff
\* statistics cannot be had.
C27_ParentFailureIsRoot ==
  (hpc = "done" /\ hop \in TreeWalks /\ history.walk_ok) =>
    /\ hres = walk(hop, AsRoots)
    /\ hres.ok <=> Aborting = {}
    /\ hres.ok =>
         \A a \in WalkAuthors :
           IF hop = "diff_stats"
             THEN hres.val[a] = [insertions |-> SumDiff(Own(a), "insertions"),
                                 deletions  |-> SumDiff(Own(a), "deletions")]
             ELSE hres.val[a] = Touched(a, Len(history.commits))

\* C27 witness: the only commit of A has a first parent that cannot be
\* loaded; diff_stats returned A with the 3 lines of the commit's whole
\* tree, not the 1 line of the change.
C27_Witness ==
  /\ hpc = "done" /\ hop = "diff_stats" /\ hres.ok
  /\ \E i \in DOMAIN history.commits :
       /\ Own("A") = {i}
       /\ history.commits[i].parent = "err"
       /\ history.commits[i].vs_parent.insertions = 1
  /\ hres.val["A"] = [insertions |-> 3, deletions |-> 0]

\* Whether item c of a walk is a commit: the walk yielded its id and
\* find_commit found it.
IsCommit(c) == c.walk = "ok"

\* The history without the ids the walk yields an error for and without the
\* ids whose commit cannot be looked up.
Remaining == [history EXCEPT !.commits = SelectSeq(history.commits, IsCommit)]

\* C28: in diff_stats, files_contributed_to, contributors and commits an id
\* the walk yields an error for and an id whose commit cannot be looked up
\* are skipped without an error: the call returns what the same walk over
\* the remaining commits returns; contributors and commits return Ok, and
\* so do diff_stats and files_contributed_to when no remaining commit fails.
C28_UnloadableIdsSkipped ==
  (hpc = "done" /\ history.walk_ok) =>
    /\ hres = walk(hop, Remaining)
    /\ hop \in {"contributors", "commits"} => hres.ok
    /\ (hop \in TreeWalks /\ Aborting = {}) => hres.ok
    /\ hop = "commits" =>
         hres.val = [k \in DOMAIN Remaining.commits |-> [inner |-> Remaining.commits[k]]]
    /\ hop = "contributors" =>
         hres.val = {c.sig : c \in {d \in {history.commits[i] : i \in DOMAIN history.commits} :
                                      IsCommit(d)}} \ {NonUtf8}

\* C28 witness: the walk yielded an error for one id and an id whose commit
\* cannot be found, both of A, and the root commit of A; commits returned
\* the one commit.
C28_Witness ==
  /\ hpc = "done" /\ hop = "commits" /\ hres.ok
  /\ \E i \in DOMAIN history.commits : history.commits[i].walk = "walk_err"
  /\ \E i \in DOMAIN history.commits : history.commits[i].walk = "missing"
  /\ Len(hres.val) = 1
  /\ hres.val[1].inner.parent = "root"

\* C29: final_contributions_file does not look at the exclusion set. What
\* it returns for a path is what it returns on a handle that has excluded
\* nothing, so the same before and after exclude_file of that path; an
\* excluded file that can be blamed and, in the working directory, read is
\* attributed when asked for, while ls() and final_contributions() leave
\* it out.
C29_FileCallIgnoresExclusion ==
  /\ \A i \in DOMAIN repo :
       /\ final_contributions_file_on(repo, excluded \ {repo[i].path}, i)
            = final_contributions_file_on(repo, exclude_file(excluded, repo[i].path), i)
       /\ final_contributions_file_on(repo, excluded, i)
            = final_contributions_file_on(repo, open(excluded), i)
  /\ hcall.op = "final_contributions_file" =>
       /\ hcall.out = final_contributions_file_on(repo, open(excluded), hcall.arg)
       /\ (~bare /\ Good(repo[hcall.arg])) =>
            /\ hcall.out.ok
            /\ hcall.out.contributions = Declared(hcall.arg).contributions
       /\ (repo[hcall.arg].path \in excluded /\ lsOk) =>
            \A k \in DOMAIN ls(repo, lsOk, excluded).files :
              ls(repo, lsOk, excluded).files[k] # hcall.arg

\* C29 witness: the first entry is excluded and is the only one with lines
\* of A; final_contributions_file on it returned the lines of A, which
\* final_contributions leaves out.
C29_Witness ==
  /\ hcall.op = "final_contributions_file" /\ hcall.arg = 1
  /\ RelPath(PathNames[1]) \in excluded
  /\ hcall.out.ok /\ "A" \in DOMAIN hcall.out.contributions
  /\ final_contributions(repo, lsOk, excluded).ok
  /\ "A" \notin DOMAIN final_contributions(repo, lsOk, excluded).val

\* C30: the exclusion state is a set that only grows. exclude_file adds its
\* path and nothing else, a second exclude_file of the same path changes
\* nothing and two exclude_file calls give the same set in either order; no
\* other operation of the handle changes the set; ls() and
\* final_contributions() return what they return for that set; and a handle
\* that was just opened has excluded nothing.
C30_ExclusionSetOnlyGrows ==
  /\ [][hcall'.op = "exclude_file" =>
          /\ excluded' = excluded \cup {hcall'.arg}
          /\ hcall'.arg \in excluded => excluded' = excluded]_vars
  /\ [][hcall'.op \in {"ls", "final_contributions", "final_contributions_file"} =>
          excluded' = excluded]_vars
  /\ [][hcall'.op = "open" => excluded' = {}]_vars
  /\ [](\A p, q \in ExcludePaths :
          /\ exclude_file(exclude_file(excluded, p), p) = exclude_file(excluded, p)
          /\ exclude_file(exclude_file(excluded, p), q)
               = exclude_file(exclude_file(excluded, q), p))
  /\ [](/\ excluded \subseteq hbase.ever
        /\ hfresh => excluded = {}
        /\ hcall.op = "ls" => hcall.out = ls(repo, lsOk, excluded)
        /\ (hcall.op = "ls" /\ hcall.out.ok) =>
             {hcall.out.files[k] : k \in DOMAIN hcall.out.files}
               = {i \in DOMAIN repo : repo[i].path \notin excluded}
        /\ (hcall.op = "final_contributions" /\ hcall.out.ok) =>
             hcall.out.val = DeclaredProject({i \in DOMAIN repo :
                                               repo[i].path \notin excluded
                                               /\ Good(repo[i])}))

\* C30 witness: two paths were excluded on the handle, one of them a second
\* time just now, and the set holds the two.
C30_Witness ==
  /\ hcall.op = "exclude_file" /\ hcall.arg = RelPath(PathNames[1])
  /\ excluded = {RelPath(PathNames[1]), RelPath(PathNames[2])}
  /\ ~hfresh

====
